---------------------------- MODULE Spec2Model ----------------------------
(***************************************************************************)
(* A model of the litmus-condition expression language of isla-axiomatic   *)
(* (src/isla-axiomatic/src/litmus/exp.rs): the translation-table walk, the *)
(* primitive-function table, the partial evaluator, eval and eval_loc.     *)
(*                                                                         *)
(* Representation.  A u64 is the set of its one-bits, a subset of 0..63    *)
(* (TLC's integers are 32 bits wide, the program's are 64): bitwise and/or *)
(* are intersection/union, a mask is an intersection with an interval and  *)
(* addition is a ripple-carry over the 64 positions, so the width and the  *)
(* carry out of bit 63 are kept.  A Val is a record tagged "Bits", "Bool", *)
(* "I128", "Unit" or "Symbolic"; a Result is Ok(v) or Err(kind, msg), msg  *)
(* being the pieces of the message (the words the format string joins); a  *)
(* Rust panic unwinds through every caller and is modelled as the error    *)
(* kind "Panic".                                                           *)
(***************************************************************************)
EXTENDS Integers, Sequences, FiniteSets, TLC

VARIABLES
    memory,           \* the initial-memory image (&Memory<B>)
    addrs,            \* name -> virtual address   (addrs: &HashMap<String, u64>)
    pas,              \* name -> physical address  (pas: &HashMap<String, u64>)
    objdump,          \* label -> address, the disassembly text
    overflow_checks,  \* the build: TRUE panics on u64 overflow, FALSE wraps
    call,             \* the operation applied and its inputs
    result,           \* what the operation returned
    evaluations,      \* the partial evaluations made so far, in order
    closure,          \* what the callback of reset_eval has captured
    invocations,      \* the invocations of the callback
    scanned,            \* interrogate_model: the events of the trace scanned so far
    init_complete,      \* interrogate_model: an Instr event has been seen
    initial_memory,     \* interrogate_model: address -> byte before the test
    current_memory,     \* interrogate_model: address -> Option<u8>
    initial_registers,  \* interrogate_model: register -> value before the test
    current_registers,  \* interrogate_model: register -> (bool, Option<B64>)
    scan_status,        \* interrogate_model: scanning, or the error it returned
    WORKERS,            \* server: the static counter of running workers
    requests,           \* server: the requests in flight, each at a point of spawn_worker_err
    served,             \* server: the number of requests received so far
    lex_input,          \* cat lexer: the input the Lexer was made of
    lex_pos,            \* cat lexer: Lexer.pos; Lexer.buf is the input from there on
    lex_pc,             \* cat lexer: the point Lexer::next is at
    lex_result          \* cat lexer: what the last call of Lexer::next returned

\* The state of interrogate_model (isla-testgen, extract_state.rs).
ScanVars == <<scanned, init_complete, initial_memory, current_memory, initial_registers,
              current_registers, scan_status>>

\* The state of the web server (web/server, server.rs).
ServerVars == <<WORKERS, requests, served>>

\* The state of the lexer of cat files (isla-cat, cat_lexer.rs).
LexVars == <<lex_input, lex_pos, lex_pc, lex_result>>

\* The state of the components other than the expression language.
Others == <<ScanVars, ServerVars, LexVars>>

vars == <<memory, addrs, pas, objdump, overflow_checks, call, result,
          evaluations, closure, invocations, Others>>

----------------------------------------------------------------------------
(* Bounds of the model. *)

\* Nat literals 0..MaxNat are drawn as the level argument of index/offset.
MaxNat == 4
\* LastWriteTo locations carry 1..MaxBytes bytes.
MaxBytes == 2
\* At most MaxEvals partial evaluations are made one after the other.
MaxEvals == 3
\* The callback of reset_eval is invoked at most MaxInvocations times.
MaxInvocations == 2
\* The event traces interrogate_model scans have at most MaxEvents events.
MaxEvents == 3
\* The server has at most MaxInFlight requests in flight at a time and
\* receives at most MaxRequests requests.
MaxInFlight == 2
MaxRequests == 11
\* The inputs of the cat lexer have at most MaxInput characters.
MaxInput == 3

----------------------------------------------------------------------------
(* 64-bit words as sets of bit positions. *)

Bit(n, i) == (n \div (2 ^ i)) % 2

\* B::from_u64(n) for a number below 2^31.
NatBits(n) == {i \in 0 .. 30 : Bit(n, i) = 1}

\* The word whose four 16-bit limbs are w3 (bits 48..63) .. w0 (bits 0..15).
Limbs(w3, w2, w1, w0) ==
    {i \in 0 .. 15 : Bit(w0, i) = 1} \cup {16 + i : i \in {j \in 0 .. 15 : Bit(w1, j) = 1}}
    \cup {32 + i : i \in {j \in 0 .. 15 : Bit(w2, j) = 1}}
    \cup {48 + i : i \in {j \in 0 .. 15 : Bit(w3, j) = 1}}

RECURSIVE ToNat(_)
\* The number a word below 2^31 denotes.
ToNat(b) ==
    IF b = {} THEN 0
    ELSE LET i == CHOOSE j \in b : TRUE IN (2 ^ i) + ToNat(b \ {i})

\* Bits lo .. lo+n-1 of b, moved down to 0 .. n-1.
Field(b, lo, n) == {i - lo : i \in b \cap (lo .. (lo + n - 1))}

\* The 16-bit limb k of b as a number, and the bits of limb k of a sum whose
\* limb value (with its carry out) is n.
LimbOf(b, k) == ToNat(Field(b, 16 * k, 16))
LimbBits(n, k) == {16 * k + i : i \in {j \in 0 .. 15 : Bit(n, j) = 1}}

RECURSIVE LimbSum(_, _, _)
\* Limb k of a plus limb k of b plus the carry out of the limbs below.
LimbSum(a, b, k) ==
    LimbOf(a, k) + LimbOf(b, k) + (IF k = 0 THEN 0 ELSE LimbSum(a, b, k - 1) \div 65536)

\* The sum of a and b; position 64 of the result is the carry out of bit 63.
Add65(a, b) ==
    LimbBits(LimbSum(a, b, 0), 0) \cup LimbBits(LimbSum(a, b, 1), 1)
    \cup LimbBits(LimbSum(a, b, 2), 2) \cup LimbBits(LimbSum(a, b, 3), 3)
    \cup (IF LimbSum(a, b, 3) >= 65536 THEN {64} ELSE {})

\* u64 wrapping_add.
Add64(a, b) == Add65(a, b) \cap (0 .. 63)

\* Whether a + b does not fit in 64 bits.
Overflows(a, b) == 64 \in Add65(a, b)

----------------------------------------------------------------------------
(* Values, results, errors. *)

Bits(bs, len) == [tag |-> "Bits", len |-> len, bits |-> bs]
Bool(b) == [tag |-> "Bool", b |-> b]
I128(n) == [tag |-> "I128", n |-> n]
Symbolic == [tag |-> "Symbolic"]
Unit == [tag |-> "Unit"]

Ok(v) == [ok |-> TRUE, val |-> v]
Err(kind, msg) == [ok |-> FALSE, kind |-> kind, msg |-> msg]

IsErr(r, kind) == ~r.ok /\ r.kind = kind

\* B::from_u64
from_u64(bs) == Bits(bs, 64)

\* bv.lower_u64()
lower_u64(bv) == bv.bits \cap (0 .. 63)

\* `a + b` on u64: the build either checks for overflow (and panics) or wraps.
checked_add(a, b, oc) ==
    IF oc /\ Overflows(a, b) THEN Err("Panic", <<"attempt to add with overflow">>)
    ELSE Ok(Add64(a, b))

----------------------------------------------------------------------------
(* Virtual-address decomposition (crate::page_table::VirtualAddress, 4 KiB   *)
(* pages) and the initial memory (isla_lib::memory::Memory).                 *)

\* VirtualAddress::level_index(level): the 9-bit table index of that level,
\* bits 39..47 (level 0), 30..38 (1), 21..29 (2), 12..20 (3), in 0..511.
level_index(va, level) == ToNat(Field(va, 12 + 9 * (3 - level), 9))

\* VirtualAddress::page_offset(): the low 12 bits.
page_offset(va) == va \cap (0 .. 11)

\* bzhi_u64(!0xFFF, 48): bits 12..47.
PageMask == 12 .. 47

\* A memory image maps 8-aligned addresses to 64-bit words, each concrete or
\* symbolic, stored little-endian; byte a of memory is byte (a mod 8) of the
\* word at a - (a mod 8).
WordBase(a) == a \ {0, 1, 2}

ByteMapped(mem, a) == WordBase(a) \in DOMAIN mem

ByteSymbolic(mem, a) == mem[WordBase(a)].sym

ByteBits(mem, a) == Field(mem[WordBase(a)].bits, 8 * ToNat(a \cap {0, 1, 2}), 8)

\* memory.read_initial(addr, 8): the 8 bytes at addr .. addr+7 as one
\* little-endian value; BadRead when a byte has no initial value.
read_initial(mem, addr) ==
    LET at(i) == Add64(addr, NatBits(i))
    IN  IF \E i \in 0 .. 7 : ~ByteMapped(mem, at(i))
        THEN Err("BadRead", <<"no initial value">>)
        ELSE IF \E i \in 0 .. 7 : ByteSymbolic(mem, at(i))
        THEN Ok(Symbolic)
        ELSE Ok(from_u64(UNION {{8 * i + j : j \in ByteBits(mem, at(i))} : i \in 0 .. 7}))

----------------------------------------------------------------------------
(* The translation-table walk. *)

desc_to_u64(desc) ==
    IF desc.tag = "Bits" THEN Ok(lower_u64(desc))
    ELSE Err("BadRead", <<"symbolic descriptor">>)

\* memory.read_initial(pte, 8).and_then(desc_to_u64)
read_desc(mem, pte) ==
    LET r == read_initial(mem, pte)
    IN  IF r.ok THEN desc_to_u64(r.val) ELSE r

\* The first table entry: table_addr + va.level_index(0) * 8.
first_pte(table_addr, va, oc) ==
    checked_add(table_addr, NatBits(level_index(va, 0) * 8), oc)

\* next_pte without the `& !0b11`: the descriptor's two tag bits stay in the
\* address of the next table.
next_pte_tagged(desc, va, level, oc) ==
    checked_add(desc, NatBits(level_index(va, level) * 8), oc)

\* The entry of the next table: (desc & !0b11) + va.level_index(level) * 8.
next_pte(desc, va, level, oc) ==
    checked_add(desc \ {0, 1}, NatBits(level_index(va, level) * 8), oc)

\* walk_pa with the mask !0xFFF alone: descriptor bits 48..63 reach the
\* translated address.
walk_pa_high(l3desc, va, oc) ==
    checked_add(l3desc \cap (12 .. 63), page_offset(va), oc)

\* walk_pa with the mask bzhi_u64(!0, 48) alone: descriptor bits 0..11 are
\* added to the page offset.
walk_pa_low(l3desc, va, oc) ==
    checked_add(l3desc \cap (0 .. 47), page_offset(va), oc)

\* The translated address: (l3desc & bzhi_u64(!0xFFF, 48)) + va.page_offset().
walk_pa(l3desc, va, oc) ==
    checked_add(l3desc \cap PageMask, page_offset(va), oc)

\* The TranslationTableWalk struct built from the four (pte, desc) pairs, in
\* the order they were computed, and the translated address.
TranslationTableWalk(w, pa_sum) ==
    IF ~pa_sum.ok THEN pa_sum
    ELSE Ok([l0pte |-> w[1], l0desc |-> w[2],
             l1pte |-> w[3], l1desc |-> w[4],
             l2pte |-> w[5], l2desc |-> w[6],
             l3pte |-> w[7], l3desc |-> w[8],
             pa |-> pa_sum.val])

RECURSIVE walk_level(_, _, _, _, _, _)
\* After the read of the entry at pte of the given level: the `?` on the read
\* returns its error, otherwise the walk goes on to the next level's entry or,
\* after level 3, to the translated address.
walk_read(va, mem, oc, pte, desc, level, w) ==
    IF ~desc.ok THEN desc
    ELSE IF level = 3
    THEN TranslationTableWalk(w \o <<pte, desc.val>>, walk_pa(desc.val, va, oc))
    ELSE walk_level(va, mem, oc, next_pte(desc.val, va, level + 1, oc), level + 1,
                    w \o <<pte, desc.val>>)

\* One level of the walk: the entry address pte (the sum may have panicked),
\* then memory.read_initial(pte, 8).and_then(desc_to_u64)?.
walk_level(va, mem, oc, pte, level, w) ==
    IF ~pte.ok THEN pte
    ELSE walk_read(va, mem, oc, pte.val, read_desc(mem, pte.val), level, w)

\* translation_table_walk(args, memory).
translation_table_walk(args, mem, oc) ==
    IF Len(args) # 2
    THEN Err("Type", <<"translate", "must have two arguments">>)
    ELSE IF args[1].tag # "Bits"
    THEN Err("Type", <<"virtual address is not a concrete bitvector for translation">>)
    ELSE IF args[2].tag # "Bits"
    THEN Err("Type", <<"Table address is not a concrete bitvector for translation">>)
    ELSE walk_level(lower_u64(args[1]), mem, oc,
                    first_pte(lower_u64(args[2]), lower_u64(args[1]), oc), 0, <<>>)

RECURSIVE walk_reads_level(_, _, _, _, _)
\* The addresses read after the read of the entry of the given level: none
\* when that read failed or the level is 3, otherwise those of the next level.
walk_reads_read(va, mem, oc, desc, level) ==
    IF ~desc.ok \/ level = 3 THEN <<>>
    ELSE walk_reads_level(va, mem, oc, next_pte(desc.val, va, level + 1, oc), level + 1)

\* The addresses memory.read_initial is called with from the given level
\* on, in order: none when the entry address could not be computed.
walk_reads_level(va, mem, oc, pte, level) ==
    IF ~pte.ok THEN <<>>
    ELSE <<pte.val>> \o walk_reads_read(va, mem, oc, read_desc(mem, pte.val), level)

\* The reads of a walk that looks at the virtual address only after the
\* first read: an address that is no bit-vector is read as zero.
translation_reads_early(args, mem, oc) ==
    IF Len(args) # 2 THEN <<>>
    ELSE IF args[2].tag # "Bits" THEN <<>>
    ELSE IF args[1].tag # "Bits"
    THEN walk_reads_level({}, mem, oc, first_pte(lower_u64(args[2]), {}, oc), 0)
    ELSE walk_reads_level(lower_u64(args[1]), mem, oc,
                          first_pte(lower_u64(args[2]), lower_u64(args[1]), oc), 0)

\* The addresses translation_table_walk(args, memory) reads from memory,
\* in order: its three checks come before its first read.
translation_reads(args, mem, oc) ==
    IF Len(args) # 2 THEN <<>>
    ELSE IF args[1].tag # "Bits" THEN <<>>
    ELSE IF args[2].tag # "Bits" THEN <<>>
    ELSE walk_reads_level(lower_u64(args[1]), mem, oc,
                          first_pte(lower_u64(args[2]), lower_u64(args[1]), oc), 0)

----------------------------------------------------------------------------
(* Bit-vector operations of isla_lib::primop and the default stage-1       *)
(* attributes of crate::page_table.                                        *)

\* The widest bit-vector a Val::Bits holds.
MAX_WIDTH == 128

\* primop::and_bits / or_bits / xor_bits on two concrete vectors of one width.
and_bits(x, y) ==
    IF x.tag = "Bits" /\ y.tag = "Bits" /\ x.len = y.len
    THEN Ok(Bits(x.bits \cap y.bits, x.len))
    ELSE Err("Type", <<"and_bits">>)

or_bits(x, y) ==
    IF x.tag = "Bits" /\ y.tag = "Bits" /\ x.len = y.len
    THEN Ok(Bits(x.bits \cup y.bits, x.len))
    ELSE Err("Type", <<"or_bits">>)

xor_bits(x, y) ==
    IF x.tag = "Bits" /\ y.tag = "Bits" /\ x.len = y.len
    THEN Ok(Bits((x.bits \cup y.bits) \ (x.bits \cap y.bits), x.len))
    ELSE Err("Type", <<"xor_bits">>)

\* The shift amount a vector denotes, capped at MAX_WIDTH.
ShiftAmount(b) == IF b \cap (8 .. MAX_WIDTH) # {} THEN MAX_WIDTH ELSE ToNat(b)

\* primop::shift_bits_right / shift_bits_left: the amount is a bit-vector.
shift_bits_right(x, y) ==
    IF x.tag = "Bits" /\ y.tag = "Bits"
    THEN Ok(Bits({i - ShiftAmount(y.bits) : i \in x.bits} \cap (0 .. (x.len - 1)), x.len))
    ELSE Err("Type", <<"shift_bits_right">>)

shift_bits_left(x, y) ==
    IF x.tag = "Bits" /\ y.tag = "Bits"
    THEN Ok(Bits({i + ShiftAmount(y.bits) : i \in x.bits} \cap (0 .. (x.len - 1)), x.len))
    ELSE Err("Type", <<"shift_bits_left">>)

\* primop::set_slice_internal(bits, n, update): update written over bits
\* n .. n+len(update)-1 of bits, which must hold them.
set_slice_internal(bits, n, update) ==
    IF bits.tag = "Bits" /\ n.tag = "I128" /\ update.tag = "Bits"
       /\ n.n >= 0 /\ n.n + update.len <= bits.len
    THEN Ok(Bits((bits.bits \ (n.n .. (n.n + update.len - 1)))
                 \cup {i + n.n : i \in update.bits}, bits.len))
    ELSE Err("Type", <<"set_slice_internal">>)

\* primop::zero_extend(bits, len) / sign_extend(bits, len)
zero_extend(bits, len) ==
    IF bits.tag = "Bits" /\ len.tag = "I128" /\ bits.len <= len.n /\ len.n <= MAX_WIDTH
    THEN Ok(Bits(bits.bits, len.n))
    ELSE Err("Type", <<"zero_extend">>)

sign_extend(bits, len) ==
    IF bits.tag = "Bits" /\ len.tag = "I128" /\ bits.len <= len.n /\ len.n <= MAX_WIDTH
       /\ bits.len > 0
    THEN Ok(Bits(bits.bits \cup (IF (bits.len - 1) \in bits.bits
                                 THEN bits.len .. (len.n - 1) ELSE {}), len.n))
    ELSE Err("Type", <<"sign_extend">>)

\* primop::subrange_internal(bits, high, low): bits high .. low, both included.
subrange_internal(bits, high, low) ==
    IF bits.tag = "Bits" /\ high.tag = "I128" /\ low.tag = "I128"
       /\ 0 <= low.n /\ low.n <= high.n /\ high.n < bits.len
    THEN Ok(Bits(Field(bits.bits, low.n, high.n - low.n + 1), high.n - low.n + 1))
    ELSE Err("Type", <<"subrange_internal">>)

\* S1PageAttrs::default().bits().0: the fixed 64-bit mask of default
\* stage-1 attributes.  Its value is set in crate::page_table; the mask
\* here stands for it (some attribute bits above the two tag bits).
S1DefaultAttrs == {6, 8, 9, 10}

----------------------------------------------------------------------------
(* Keyword arguments (KwArgs).  Every primitive removes a keyword at most  *)
(* once and never reads the map after, so a removal is a lookup.           *)

\* KwArgs::remove(caller, kw)
kw_remove(kw_args, caller, kw) ==
    IF kw \in DOMAIN kw_args THEN Ok(kw_args[kw])
    ELSE Err("Type", <<caller, "must have a", kw, "keyword argument">>)

\* KwArgs::remove_or(kw, or)
kw_remove_or(kw_args, kw, or) ==
    IF kw \in DOMAIN kw_args THEN [have |-> TRUE, val |-> kw_args[kw]]
    ELSE [have |-> FALSE, val |-> or]

----------------------------------------------------------------------------
(* The primitives, each a LitmusFn (args, kw_args, memory, solver); the    *)
(* solver is not modelled (every Val is concrete), oc is the build's       *)
(* overflow checking.                                                      *)

WalkResult(walk, field) == IF walk.ok THEN Ok(from_u64(walk.val[field])) ELSE walk

pte0(args, kw_args, mem, oc) == WalkResult(translation_table_walk(args, mem, oc), "l0pte")

pte1(args, kw_args, mem, oc) == WalkResult(translation_table_walk(args, mem, oc), "l1pte")

pte2(args, kw_args, mem, oc) == WalkResult(translation_table_walk(args, mem, oc), "l2pte")

pte3(args, kw_args, mem, oc) == WalkResult(translation_table_walk(args, mem, oc), "l3pte")

desc0(args, kw_args, mem, oc) == WalkResult(translation_table_walk(args, mem, oc), "l0desc")

desc1(args, kw_args, mem, oc) == WalkResult(translation_table_walk(args, mem, oc), "l1desc")

desc2(args, kw_args, mem, oc) == WalkResult(translation_table_walk(args, mem, oc), "l2desc")

desc3(args, kw_args, mem, oc) == WalkResult(translation_table_walk(args, mem, oc), "l3desc")

pa(args, kw_args, mem, oc) == WalkResult(translation_table_walk(args, mem, oc), "pa")

\* pa_u64: the physical address as a u64, not a Val.
pa_u64(args, kw_args, mem, oc) ==
    LET walk == translation_table_walk(args, mem, oc)
    IN  IF walk.ok THEN Ok(walk.val.pa) ELSE walk

bvand(args, kw_args, mem, oc) ==
    IF Len(args) # 2 THEN Err("Type", <<"bvand", "must have two arguments">>)
    ELSE and_bits(args[1], args[2])

bvor(args, kw_args, mem, oc) ==
    IF Len(args) # 2 THEN Err("Type", <<"bvor", "must have two arguments">>)
    ELSE or_bits(args[1], args[2])

bvxor(args, kw_args, mem, oc) ==
    IF Len(args) # 2 THEN Err("Type", <<"bvxor", "must have two arguments">>)
    ELSE xor_bits(args[1], args[2])

bvlshr(args, kw_args, mem, oc) ==
    IF Len(args) # 2 THEN Err("Type", <<"bvlshr", "must have two arguments">>)
    ELSE shift_bits_right(args[1], args[2])

bvshl(args, kw_args, mem, oc) ==
    IF Len(args) # 2 THEN Err("Type", <<"bvshl", "must have two arguments">>)
    ELSE shift_bits_left(args[1], args[2])

\* index with the guard `0 <= i && i <= 4`.
index_level4(args, kw_args, mem, oc) ==
    LET level == kw_remove(kw_args, "index", "level")
        va == kw_remove_or(kw_args, "va", from_u64({}))
        ipa == kw_remove_or(kw_args, "ipa", from_u64({}))
        a == IF va.have THEN va.val ELSE ipa.val
    IN  IF ~level.ok THEN level
        ELSE IF va.have = ipa.have
        THEN Err("Type", <<"index", "must have either a va or an ipa argument">>)
        ELSE IF a.tag = "Bits" /\ level.val.tag = "I128"
                /\ 0 <= level.val.n /\ level.val.n <= 4
        THEN Ok(I128(level_index(lower_u64(a), level.val.n)))
        ELSE Err("Type", <<"index", "must have concrete arguments, with index being between 0 and 3">>)

index(args, kw_args, mem, oc) ==
    LET level == kw_remove(kw_args, "index", "level")
        va == kw_remove_or(kw_args, "va", from_u64({}))
        ipa == kw_remove_or(kw_args, "ipa", from_u64({}))
        a == IF va.have THEN va.val ELSE ipa.val
    IN  IF ~level.ok THEN level
        ELSE IF va.have = ipa.have
        THEN Err("Type", <<"index", "must have either a va or an ipa argument">>)
        ELSE IF a.tag = "Bits" /\ level.val.tag = "I128"
                /\ 0 <= level.val.n /\ level.val.n <= 3
        THEN Ok(I128(level_index(lower_u64(a), level.val.n)))
        ELSE Err("Type", <<"index", "must have concrete arguments, with index being between 0 and 3">>)

offset(args, kw_args, mem, oc) ==
    LET level == kw_remove(kw_args, "offset", "level")
        va == kw_remove_or(kw_args, "va", from_u64({}))
        ipa == kw_remove_or(kw_args, "ipa", from_u64({}))
        a == IF va.have THEN va.val ELSE ipa.val
    IN  IF ~level.ok THEN level
        ELSE IF va.have = ipa.have
        THEN Err("Type", <<"offset", "must have either a va or an ipa argument">>)
        ELSE IF a.tag = "Bits" /\ level.val.tag = "I128"
                /\ 0 <= level.val.n /\ level.val.n <= 3
        THEN Ok(from_u64(NatBits(level_index(lower_u64(a), level.val.n) * 8)))
        ELSE Err("Type", <<"index", "must have concrete arguments, with index being between 0 and 3">>)

\* ttbr whose vmid branch writes the asid value as well.
ttbr_asid_only(args, kw_args, mem, oc) ==
    LET base == kw_remove(kw_args, "ttbr", "base")
        asid_kw == kw_remove_or(kw_args, "asid", Bits({}, 16))
        vmid_kw == kw_remove_or(kw_args, "vmid", Bits({}, 16))
        cnp == kw_remove_or(kw_args, "CnP", Bits({}, 1))
    IN  IF ~base.ok THEN base
        ELSE IF asid_kw.have = vmid_kw.have
        THEN Err("Type", <<"ttbr", "must have either a vmid or an asid argument">>)
        ELSE LET bits == set_slice_internal(base.val, I128(48), asid_kw.val)
             IN  IF ~bits.ok THEN bits
                 ELSE set_slice_internal(bits.val, I128(0), cnp.val)

ttbr(args, kw_args, mem, oc) ==
    LET base == kw_remove(kw_args, "ttbr", "base")
        asid_kw == kw_remove_or(kw_args, "asid", Bits({}, 16))
        vmid_kw == kw_remove_or(kw_args, "vmid", Bits({}, 16))
        cnp == kw_remove_or(kw_args, "CnP", Bits({}, 1))
    IN  IF ~base.ok THEN base
        ELSE IF asid_kw.have = vmid_kw.have
        THEN Err("Type", <<"ttbr", "must have either a vmid or an asid argument">>)
        ELSE LET bits == set_slice_internal(base.val, I128(48),
                             IF asid_kw.have THEN asid_kw.val ELSE vmid_kw.val)
             IN  IF ~bits.ok THEN bits
                 ELSE set_slice_internal(bits.val, I128(0), cnp.val)

asid(args, kw_args, mem, oc) ==
    IF Len(args) > 0
    THEN LET bits == set_slice_internal(Bits({}, 16), I128(48), args[Len(args)])
         IN  IF ~bits.ok THEN bits ELSE zero_extend(bits.val, I128(8))
    ELSE Err("Type", <<"asid(v)", "takes 1 argument">>)

\* mkdesc with the check `!have_table && !have_oa`: a call with both keywords
\* goes on as a table descriptor.
mkdesc_lenient(args, kw_args, mem, oc) ==
    LET table == kw_remove_or(kw_args, "table", from_u64({}))
        oa == kw_remove_or(kw_args, "oa", Bits({}, 16))
    IN  IF ~table.have /\ ~oa.have
        THEN Err("Type", <<"mkdesc", "must have either a table or an oa argument">>)
        ELSE IF table.have
        THEN or_bits(table.val, from_u64({0, 1}))
        ELSE LET tagged == or_bits(oa.val, from_u64({0}))
             IN  IF ~tagged.ok THEN tagged
                 ELSE or_bits(tagged.val, from_u64(S1DefaultAttrs))

mkdesc(args, kw_args, mem, oc) ==
    LET table == kw_remove_or(kw_args, "table", from_u64({}))
        oa == kw_remove_or(kw_args, "oa", Bits({}, 16))
    IN  IF table.have = oa.have
        THEN Err("Type", <<"mkdesc", "must have either a table or an oa argument">>)
        ELSE IF table.have
        THEN or_bits(table.val, from_u64({0, 1}))
        ELSE LET tagged == or_bits(oa.val, from_u64({0}))
             IN  IF ~tagged.ok THEN tagged
                 ELSE or_bits(tagged.val, from_u64(S1DefaultAttrs))

\* mkdesc3 with the tag 0b01 of a block descriptor.
mkdesc3_block(args, kw_args, mem, oc) ==
    LET oa == kw_remove(kw_args, "mkdesc3", "oa")
    IN  IF ~oa.ok THEN oa
        ELSE LET tagged == or_bits(oa.val, from_u64({0}))
             IN  IF ~tagged.ok THEN tagged
                 ELSE or_bits(tagged.val, from_u64(S1DefaultAttrs))

mkdesc3(args, kw_args, mem, oc) ==
    LET oa == kw_remove(kw_args, "mkdesc3", "oa")
    IN  IF ~oa.ok THEN oa
        ELSE LET tagged == or_bits(oa.val, from_u64({0, 1}))
             IN  IF ~tagged.ok THEN tagged
                 ELSE or_bits(tagged.val, from_u64(S1DefaultAttrs))

page(args, kw_args, mem, oc) ==
    IF Len(args) # 1 THEN Err("Type", <<"page", "must have 1 argument">>)
    ELSE subrange_internal(args[1], I128(48), I128(12))

extz(args, kw_args, mem, oc) ==
    IF Len(args) # 2 THEN Err("Type", <<"extz", "must have 2 arguments">>)
    ELSE zero_extend(args[1], args[2])

exts(args, kw_args, mem, oc) ==
    IF Len(args) # 2 THEN Err("Type", <<"exts", "must have 2 arguments">>)
    ELSE sign_extend(args[1], args[2])

\* The names litmus_primops() inserts.
PrimopNames ==
    {"pte0", "pte1", "pte2", "pte3", "desc0", "desc1", "desc2", "desc3", "pa",
     "page", "extz", "exts", "ttbr", "asid", "vmid", "mkdesc1", "mkdesc2",
     "mkdesc3", "bvand", "bvor", "bvxor", "bvlshr", "bvshl", "index", "offset"}

\* litmus_primops().get(f) applied: the function stored under name f.
litmus_primops(f, args, kw_args, mem, oc) ==
    CASE f = "pte0" -> pte0(args, kw_args, mem, oc)
      [] f = "pte1" -> pte1(args, kw_args, mem, oc)
      [] f = "pte2" -> pte2(args, kw_args, mem, oc)
      [] f = "pte3" -> pte3(args, kw_args, mem, oc)
      [] f = "desc0" -> desc0(args, kw_args, mem, oc)
      [] f = "desc1" -> desc1(args, kw_args, mem, oc)
      [] f = "desc2" -> desc2(args, kw_args, mem, oc)
      [] f = "desc3" -> desc3(args, kw_args, mem, oc)
      [] f = "pa" -> pa(args, kw_args, mem, oc)
      [] f = "page" -> page(args, kw_args, mem, oc)
      [] f = "extz" -> extz(args, kw_args, mem, oc)
      [] f = "exts" -> exts(args, kw_args, mem, oc)
      [] f = "ttbr" -> ttbr(args, kw_args, mem, oc)
      [] f = "asid" -> asid(args, kw_args, mem, oc)
      [] f = "vmid" -> asid(args, kw_args, mem, oc)
      [] f = "mkdesc1" -> mkdesc(args, kw_args, mem, oc)
      [] f = "mkdesc2" -> mkdesc(args, kw_args, mem, oc)
      [] f = "mkdesc3" -> mkdesc3(args, kw_args, mem, oc)
      [] f = "bvand" -> bvand(args, kw_args, mem, oc)
      [] f = "bvor" -> bvor(args, kw_args, mem, oc)
      [] f = "bvxor" -> bvxor(args, kw_args, mem, oc)
      [] f = "bvlshr" -> bvlshr(args, kw_args, mem, oc)
      [] f = "bvshl" -> bvshl(args, kw_args, mem, oc)
      [] f = "index" -> index(args, kw_args, mem, oc)
      [] f = "offset" -> offset(args, kw_args, mem, oc)

----------------------------------------------------------------------------
(* Expressions (Exp<A>), locations (Loc<A>) and partial results (Partial). *)
(* A Bin or Hex string is the sequence of its digits' values; the keyword  *)
(* arguments of an App are a function from keyword names to expressions.   *)

Register(reg, thread_id) == [tag |-> "Register", reg |-> reg, thread_id |-> thread_id]
LastWriteTo(address, bytes) == [tag |-> "LastWriteTo", address |-> address, bytes |-> bytes]

EqLoc(loc, exp) == [tag |-> "EqLoc", loc |-> loc, exp |-> exp]
Loc(a) == [tag |-> "Loc", a |-> a]
Label(label) == [tag |-> "Label", label |-> label]
True == [tag |-> "True"]
False == [tag |-> "False"]
Bin(bin) == [tag |-> "Bin", bin |-> bin]
Hex(hex) == [tag |-> "Hex", hex |-> hex]
Bits64(u, w) == [tag |-> "Bits64", u |-> u, w |-> w]
NatLit(n) == [tag |-> "Nat", n |-> n]
And(exps) == [tag |-> "And", exps |-> exps]
Or(exps) == [tag |-> "Or", exps |-> exps]
Not(exp) == [tag |-> "Not", exp |-> exp]
App(f, args, kw_args) == [tag |-> "App", f |-> f, args |-> args, kw_args |-> kw_args]
Implies(exp1, exp2) == [tag |-> "Implies", exp1 |-> exp1, exp2 |-> exp2]

Unevaluated(exp) == [tag |-> "Unevaluated", exp |-> exp]
Evaluated(val) == [tag |-> "Evaluated", val |-> val]

\* B::new(bits, len): the payload is kept masked to the width.
new_bv(bits, len) == Bits(bits \cap (0 .. (len - 1)), len)

\* u64::from_str_radix(s, radix) of a non-empty digit string, radix 2^k:
\* digit s[i] fills the k bits from k * (Len(s) - i).
from_str_radix(s, k) ==
    UNION {{k * (Len(s) - i) + j : j \in NatBits(s[i])} : i \in 1 .. Len(s)}

\* label_from_objdump(label, objdump): the address of the label, if the
\* disassembly holds one.
label_from_objdump(label, dump) ==
    IF label \in DOMAIN dump THEN Ok(dump[label]) ELSE Err("None", <<>>)

\* into_exp with the width of a bit-vector taken as 64.
into_exp_wide(partial) ==
    IF partial.tag = "Unevaluated" THEN Ok(partial.exp)
    ELSE CASE partial.val.tag = "Bits" -> Ok(Bits64(lower_u64(partial.val), 64))
           [] partial.val.tag = "Bool" /\ partial.val.b -> Ok(True)
           [] partial.val.tag = "Bool" /\ ~partial.val.b -> Ok(False)
           [] partial.val.tag = "I128" -> Ok(NatLit(partial.val.n))
           [] OTHER -> Err("Type", <<"Cannot partially evaluate">>)

\* `n as u64` of an i128 under Exp::Nat: a number from 0 keeps its value, a
\* negative one becomes 2^64 + n, held as the bits of that word.
Nat_as_u64(n) ==
    IF n >= 0 THEN NatLit(n)
    ELSE [tag |-> "Nat", u |-> (0 .. 63) \ NatBits((-n) - 1)]

\* Partial::into_exp.
into_exp(partial) ==
    IF partial.tag = "Unevaluated" THEN Ok(partial.exp)
    ELSE CASE partial.val.tag = "Bits" ->
                Ok(Bits64(lower_u64(partial.val), partial.val.len))
           [] partial.val.tag = "Bool" /\ partial.val.b -> Ok(True)
           [] partial.val.tag = "Bool" /\ ~partial.val.b -> Ok(False)
           [] partial.val.tag = "I128" -> Ok(Nat_as_u64(partial.val.n))
           [] OTHER -> Err("Type", <<"Cannot partially evaluate">>)

\* Partial::is_evaluated
is_evaluated(partial) == partial.tag = "Evaluated"

\* eval_loc that keeps the name's lookup but falls back to address 1.
eval_loc_one(loc, physical_addrs) ==
    IF loc.tag = "LastWriteTo"
    THEN IF loc.address \in DOMAIN physical_addrs
         THEN LastWriteTo(physical_addrs[loc.address], loc.bytes)
         ELSE LastWriteTo({0}, loc.bytes)
    ELSE Register(loc.reg, loc.thread_id)

\* eval_loc(loc, physical_addrs)
eval_loc(loc, physical_addrs) ==
    IF loc.tag = "LastWriteTo"
    THEN IF loc.address \in DOMAIN physical_addrs
         THEN LastWriteTo(physical_addrs[loc.address], loc.bytes)
         ELSE LastWriteTo({}, loc.bytes)
    ELSE Register(loc.reg, loc.thread_id)

\* r.and_then(Partial::into_exp), and the `?.into_exp()?` of the same effect.
then_into_exp(r) == IF r.ok THEN into_exp(r.val) ELSE r

\* then_evaluated that hands the value back as a literal expression.
then_literal(r) ==
    IF r.ok /\ r.val.tag \in {"Bits", "Bool", "I128"}
    THEN Ok(Unevaluated(into_exp(Evaluated(r.val)).val))
    ELSE r

\* Ok(Evaluated(f(..)?))
then_evaluated(r) == IF r.ok THEN Ok(Evaluated(r.val)) ELSE r

\* The first error of a sequence of results, if it holds one: what
\* collect::<Result<_, _>>() returns for a Vec.
FirstErr(rs) ==
    LET bad == {i \in DOMAIN rs : ~rs[i].ok}
    IN  IF bad = {} THEN Ok([i \in DOMAIN rs |-> rs[i].val])
        ELSE rs[CHOOSE i \in bad : \A j \in bad : i <= j]

\* The same for a HashMap, which is visited in an order the hasher decides:
\* the key `seed` first when the map holds it, the others after it.
FirstErrKw(rs, seed) ==
    LET bad == {k \in DOMAIN rs : ~rs[k].ok}
    IN  IF bad = {} THEN Ok([k \in DOMAIN rs |-> rs[k].val])
        ELSE IF seed \in bad THEN rs[seed]
        ELSE rs[CHOOSE k \in bad : TRUE]

\* The call of an App whose arguments are all evaluated: primops.get(f), the
\* function applied to the unwrapped arguments, the value wrapped.
\* app_evaluated reporting an unknown name as Unimplemented.
app_evaluated_unimplemented(f, args, kw_args, mem, oc) ==
    IF f \notin PrimopNames
    THEN Err("Unimplemented", <<>>)
    ELSE then_evaluated(litmus_primops(f, [i \in DOMAIN args |-> args[i].val],
                                       [k \in DOMAIN kw_args |-> kw_args[k].val], mem, oc))

app_evaluated(f, args, kw_args, mem, oc) ==
    IF f \notin PrimopNames
    THEN Err("Type", <<"Unknown function", f>>)
    ELSE then_evaluated(litmus_primops(f, [i \in DOMAIN args |-> args[i].val],
                                       [k \in DOMAIN kw_args |-> kw_args[k].val], mem, oc))

\* The residual App: f with every argument turned back into an expression.
app_unevaluated(f, args, kw_args) ==
    IF ~args.ok THEN args
    ELSE IF ~kw_args.ok THEN kw_args
    ELSE Ok(Unevaluated(App(f, args.val, kw_args.val)))

\* partial_eval_app that never calls the primitive: the App is rebuilt even
\* when every argument is evaluated.
partial_eval_app_rebuilt(f, args, kw_args, mem, oc, seed) ==
    IF ~args.ok THEN args
    ELSE IF ~kw_args.ok THEN kw_args
    ELSE app_unevaluated(f,
             FirstErr([i \in DOMAIN args.val |-> into_exp(args.val[i])]),
             FirstErrKw([k \in DOMAIN kw_args.val |-> into_exp(kw_args.val[k])], seed))

\* The Exp::App arm of partial_eval, given the collected results of the
\* positional and of the keyword arguments.
partial_eval_app(f, args, kw_args, mem, oc, seed) ==
    IF ~args.ok THEN args
    ELSE IF ~kw_args.ok THEN kw_args
    ELSE IF /\ \A i \in DOMAIN args.val : is_evaluated(args.val[i])
            /\ \A k \in DOMAIN kw_args.val : is_evaluated(kw_args.val[k])
    THEN app_evaluated(f, args.val, kw_args.val, mem, oc)
    ELSE app_unevaluated(f,
             FirstErr([i \in DOMAIN args.val |-> into_exp(args.val[i])]),
             FirstErrKw([k \in DOMAIN kw_args.val |-> into_exp(kw_args.val[k])], seed))

\* The Loc arm with an absent address left as a residual expression.
partial_eval_loc_residual(addr, ad) ==
    IF addr \in DOMAIN ad THEN Ok(Evaluated(from_u64(ad[addr])))
    ELSE Ok(Unevaluated(Loc(addr)))

\* The Loc arm behind a one-entry cache that is not keyed by the name: the
\* address the previous lookup returned is given to a different name.
partial_eval_loc_cached(addr, ad) ==
    IF /\ evaluations # <<>>
       /\ evaluations[Len(evaluations)].exp.tag = "Loc"
       /\ evaluations[Len(evaluations)].exp.a # addr
       /\ evaluations[Len(evaluations)].result.ok
    THEN evaluations[Len(evaluations)].result
    ELSE IF addr \in DOMAIN ad THEN Ok(Evaluated(from_u64(ad[addr])))
    ELSE Err("Type", <<"No address", addr, "found">>)

\* The Loc arm of partial_eval: the address of a name in addrs.
partial_eval_loc(addr, ad) ==
    IF addr \in DOMAIN ad THEN Ok(Evaluated(from_u64(ad[addr])))
    ELSE Err("Type", <<"No address", addr, "found">>)

\* The Label arm of partial_eval: the address of a label of the disassembly.
partial_eval_label(label, dump) ==
    LET addr == label_from_objdump(label, dump)
    IN  IF addr.ok THEN Ok(Evaluated(from_u64(addr.val)))
        ELSE Err("Type", <<"No label", label, "found">>)

\* The Bin arm of partial_eval: a string of at most 64 binary digits.
partial_eval_bin(bin) ==
    IF Len(bin) <= 64
    THEN IF Len(bin) = 0 THEN Err("Panic", <<"called unwrap on an Err value">>)
         ELSE Ok(Evaluated(new_bv(from_str_radix(bin, 1), Len(bin))))
    ELSE Err("Unimplemented", <<>>)

\* The Hex arm with the number of digits taken as the width.
partial_eval_hex_narrow(hex) ==
    IF Len(hex) <= 16
    THEN IF Len(hex) = 0 THEN Err("Panic", <<"called unwrap on an Err value">>)
         ELSE Ok(Evaluated(new_bv(from_str_radix(hex, 4), Len(hex))))
    ELSE Err("Unimplemented", <<>>)

\* The Hex arm leaving the literal in the residual expression.
partial_eval_hex_residual(hex) == Ok(Unevaluated(Hex(hex)))

\* The Hex arm of partial_eval: a string of at most 16 hexadecimal digits.
partial_eval_hex(hex) ==
    IF Len(hex) <= 16
    THEN IF Len(hex) = 0 THEN Err("Panic", <<"called unwrap on an Err value">>)
         ELSE Ok(Evaluated(new_bv(from_str_radix(hex, 4), Len(hex) * 4)))
    ELSE Err("Unimplemented", <<>>)

RECURSIVE partial_eval(_, _, _, _, _, _, _)
\* partial_eval(exp, memory, addrs, pas, objdump, solver); oc is the build's
\* overflow checking, seed the hasher's order of the keyword arguments.
partial_eval(exp, mem, ad, pa_map, dump, oc, seed) ==
    CASE exp.tag = "EqLoc" ->
            LET sub == then_into_exp(partial_eval(exp.exp, mem, ad, pa_map, dump, oc, seed))
            IN  IF sub.ok THEN Ok(Unevaluated(EqLoc(eval_loc(exp.loc, pa_map), sub.val)))
                ELSE sub
      [] exp.tag = "Loc" -> partial_eval_loc(exp.a, ad)
      [] exp.tag = "Label" -> partial_eval_label(exp.label, dump)
      [] exp.tag = "True" -> Ok(Evaluated(Bool(TRUE)))
      [] exp.tag = "False" -> Ok(Evaluated(Bool(FALSE)))
      [] exp.tag = "Bits64" -> Ok(Evaluated(new_bv(exp.u, exp.w)))
      [] exp.tag = "Nat" -> Ok(Evaluated(I128(exp.n)))
      [] exp.tag = "Bin" -> partial_eval_bin(exp.bin)
      [] exp.tag = "Hex" -> partial_eval_hex(exp.hex)
      [] exp.tag = "App" ->
            partial_eval_app(exp.f,
                FirstErr([i \in DOMAIN exp.args |->
                    partial_eval(exp.args[i], mem, ad, pa_map, dump, oc, seed)]),
                FirstErrKw([k \in DOMAIN exp.kw_args |->
                    partial_eval(exp.kw_args[k], mem, ad, pa_map, dump, oc, seed)], seed),
                mem, oc, seed)
      [] exp.tag = "And" ->
            LET exps == FirstErr([i \in DOMAIN exp.exps |-> then_into_exp(partial_eval(exp.exps[i], mem, ad, pa_map, dump, oc, seed))])
            IN  IF exps.ok THEN Ok(Unevaluated(And(exps.val))) ELSE exps
      [] exp.tag = "Or" ->
            LET exps == FirstErr([i \in DOMAIN exp.exps |-> then_into_exp(partial_eval(exp.exps[i], mem, ad, pa_map, dump, oc, seed))])
            IN  IF exps.ok THEN Ok(Unevaluated(Or(exps.val))) ELSE exps
      [] exp.tag = "Implies" ->
            LET e1 == then_into_exp(partial_eval(exp.exp1, mem, ad, pa_map, dump, oc, seed))
            IN  IF ~e1.ok THEN e1
                ELSE LET e2 == then_into_exp(partial_eval(exp.exp2, mem, ad, pa_map, dump, oc, seed))
                     IN  IF ~e2.ok THEN e2
                         ELSE Ok(Unevaluated(Implies(e1.val, e2.val)))
      [] exp.tag = "Not" ->
            LET sub == then_into_exp(partial_eval(exp.exp, mem, ad, pa_map, dump, oc, seed))
            IN  IF sub.ok THEN Ok(Unevaluated(Not(sub.val))) ELSE sub

\* eval that hands an unevaluated result back as a Bool.
eval_bool(exp, mem, ad, dump, oc, seed) ==
    LET r == partial_eval(exp, mem, ad, <<>>, dump, oc, seed)
    IN  IF ~r.ok THEN r
        ELSE IF r.val.tag = "Evaluated" THEN Ok(r.val.val)
        ELSE Ok(Bool(TRUE))

\* eval(exp, memory, addrs, objdump, solver): partial_eval with no physical
\* addresses.
eval(exp, mem, ad, dump, oc, seed) ==
    LET r == partial_eval(exp, mem, ad, <<>>, dump, oc, seed)
    IN  IF ~r.ok THEN r
        ELSE IF r.val.tag = "Evaluated" THEN Ok(r.val.val)
        ELSE Err("Unimplemented", <<>>)

----------------------------------------------------------------------------
(* The environments the operations are applied in. *)

Word(w3, w2, w1, w0) == [sym |-> FALSE, bits |-> Limbs(w3, w2, w1, w0)]
SymbolicWord == [sym |-> TRUE, bits |-> {}]

\* A four-level table rooted at 0x1000 (entries 0 and 255 of level 0), whose
\* level-3 table at 0x4000 holds 0x5000_0000_0000_0040 and
\* 0x0040_0000_8000_6743; address 0x0 holds a table descriptor as well.
ImgWalk ==
    (Limbs(0, 0, 0, 0) :> Word(0, 0, 0, 8195))
    @@ (Limbs(0, 0, 0, 4096) :> Word(0, 0, 0, 8195))
    @@ (Limbs(0, 0, 0, 6136) :> Word(0, 0, 0, 8195))
    @@ (Limbs(0, 0, 0, 8192) :> Word(0, 0, 0, 12291))
    @@ (Limbs(0, 0, 0, 12288) :> Word(0, 0, 0, 16387))
    @@ (Limbs(0, 0, 0, 16384) :> Word(20480, 0, 0, 64))
    @@ (Limbs(0, 0, 0, 16392) :> Word(64, 0, 32768, 26435))

\* Tables whose descriptors carry flag bits: 0x2007 at 0x1000 and 0x1010
\* (the next table then starts at 0x2004, not 8-aligned), all ones at
\* 0x1008, and the page descriptor 0x0040_0000_0009_AFFF at 0x4020.
ImgFlags ==
    (Limbs(0, 0, 0, 0) :> Word(0, 0, 0, 0))
    @@ (Limbs(0, 0, 0, 8) :> Word(0, 0, 0, 0))
    @@ (Limbs(0, 0, 0, 4096) :> Word(0, 0, 0, 8199))
    @@ (Limbs(0, 0, 0, 4104) :> Word(65535, 65535, 65535, 65535))
    @@ (Limbs(0, 0, 0, 4112) :> Word(0, 0, 0, 8199))
    @@ (Limbs(0, 0, 0, 8192) :> Word(0, 12291, 0, 0))
    @@ (Limbs(0, 0, 0, 8200) :> Word(0, 0, 0, 0))
    @@ (Limbs(0, 0, 0, 8208) :> Word(0, 12291, 0, 0))
    @@ (Limbs(0, 0, 0, 8216) :> Word(0, 0, 0, 0))
    @@ (Limbs(0, 0, 0, 12288) :> Word(0, 0, 0, 16387))
    @@ (Limbs(0, 0, 0, 12312) :> Word(0, 0, 0, 16387))
    @@ (Limbs(0, 0, 0, 16384) :> Word(0, 0, 0, 24575))
    @@ (Limbs(0, 0, 0, 16416) :> Word(64, 0, 9, 45055))

\* A table whose level-1 descriptor is symbolic.
ImgSym ==
    (Limbs(0, 0, 0, 4096) :> Word(0, 0, 0, 8195))
    @@ (Limbs(0, 0, 0, 8192) :> SymbolicWord)

\* Virtual addresses: 0x0, 0x0000_7FC0_0000_1234, 0x0000_0080_4000_0000
\* (indices 1, 1, 0, 0) and 0x0000_0100_8060_4567 (indices 2, 2, 3, 4).
VA0 == Limbs(0, 0, 0, 0)
VA1 == Limbs(0, 32704, 0, 4660)
VA2 == Limbs(0, 128, 16384, 0)
VA3 == Limbs(0, 256, 32864, 17767)
\* The highest 48-bit address, 0x0000_FFFF_FFFF_FFFF: index 511 at every level.
VAMax == Limbs(0, 65535, 65535, 65535)

\* Table roots: 0x1000, 0x3000 and 0xFFFF_FFFF_FFFF_F808.
Root1 == Limbs(0, 0, 0, 4096)
Root3 == Limbs(0, 0, 0, 12288)
RootHigh == Limbs(65535, 65535, 65535, 63496)

\* Symbol tables: a name's physical address differs from its virtual one,
\* "z" has no physical address and "w" no virtual one.
AddrsA == [x |-> VA0, y |-> VA1, z |-> VA3]
PasA == [x |-> Limbs(0, 0, 9, 40960), y |-> Limbs(0, 0, 32768, 24576), w |-> Limbs(0, 0, 0, 28672)]
AddrsB == [x |-> VA1]
PasB == [x |-> Limbs(0, 0, 32768, 24576)]

\* The disassembly: one label, at 0x0040_0000.
Objdump == [start |-> Limbs(0, 0, 64, 0)]

Envs ==
    {[memory |-> ImgWalk, addrs |-> AddrsA, pas |-> PasA, oc |-> FALSE],
     [memory |-> ImgWalk, addrs |-> AddrsB, pas |-> PasB, oc |-> TRUE],
     [memory |-> ImgFlags, addrs |-> AddrsA, pas |-> PasA, oc |-> TRUE],
     [memory |-> ImgFlags, addrs |-> AddrsB, pas |-> PasB, oc |-> FALSE],
     [memory |-> ImgSym, addrs |-> AddrsA, pas |-> PasA, oc |-> FALSE]}

----------------------------------------------------------------------------
(* The inputs the operations are applied to. *)

VAs == {VA0, VA1, VA2, VA3}
Roots == {Root1, Root3, RootHigh}

\* Argument vectors of a walk: every address with every root, and vectors of
\* the wrong length or with an argument that is no concrete bit-vector.
WalkArgs ==
    {<<from_u64(va), from_u64(root)>> : va \in VAs, root \in Roots}
    \cup {<<>>, <<from_u64(VA0)>>, <<from_u64(VA0), from_u64(Root1), from_u64(Root1)>>,
          <<Symbolic, from_u64(Root1)>>, <<from_u64(VA0), Symbolic>>,
          <<Bool(TRUE), Symbolic>>}

NoKw == [k \in {} |-> Unit]

\* The functions with domain S, a subset of D, that map k to a value of vals[k].
KwMaps(D, vals) == UNION {[S -> UNION {vals[k] : k \in S}] : S \in SUBSET D}

\* The keyword maps over D with each keyword k bound to a value of vals[k].
KwChoices(D, vals) == {m \in KwMaps(D, vals) : \A k \in DOMAIN m : m[k] \in vals[k]}

WalkPrimops == {"pte0", "pte1", "pte2", "pte3", "desc0", "desc1", "desc2", "desc3", "pa"}

IndexKw ==
    KwChoices({"level", "va", "ipa"},
              [level |-> {I128(n) : n \in 0 .. MaxNat} \cup {from_u64({0})},
               va |-> {from_u64(VA1), from_u64(VA3), from_u64(VAMax), Symbolic},
               ipa |-> {from_u64(VA1), Bool(TRUE)}])

TtbrKw ==
    KwChoices({"base", "asid", "vmid", "CnP"},
              [base |-> {from_u64(Root1), from_u64({}), from_u64(Limbs(65535, 0, 32768, 4097))},
               asid |-> {Bits(NatBits(66), 16), Bits(NatBits(66), 8)},
               vmid |-> {Bits(NatBits(7), 16)},
               CnP |-> {Bits({0}, 1)}])

MkdescKw ==
    KwChoices({"table", "oa"},
              [table |-> {from_u64(Limbs(0, 0, 0, 8192))},
               oa |-> {from_u64(Limbs(0, 0, 0, 16384)), from_u64(Limbs(0, 0, 9, 17474))}])

ByteVals == {Bits(NatBits(240), 8), Bits(NatBits(170), 8), Bits(NatBits(15), 8)}

\* Direct calls of the primitives: [f, args, kw_args].
PrimCalls ==
    {[f |-> f, args |-> a, kw_args |-> NoKw] :
        f \in WalkPrimops,
        a \in {<<from_u64(va), from_u64(Root1)>> : va \in VAs}
              \cup {<<from_u64(VA1), from_u64(RootHigh)>>, <<from_u64(VA0)>>,
                    <<from_u64(VA0), Symbolic>>}}
    \cup {[f |-> f, args |-> <<>>, kw_args |-> kw] : f \in {"index", "offset"}, kw \in IndexKw}
    \cup {[f |-> f, args |-> <<I128(0)>>, kw_args |-> [level |-> I128(1), va |-> from_u64(VA1)]] :
            f \in {"index", "offset"}}
    \cup {[f |-> "ttbr", args |-> <<>>, kw_args |-> kw] : kw \in TtbrKw}
    \cup {[f |-> f, args |-> <<>>, kw_args |-> kw] :
            f \in {"mkdesc1", "mkdesc2", "mkdesc3"}, kw \in MkdescKw}
    \cup {[f |-> f, args |-> <<a, b>>, kw_args |-> NoKw] :
            f \in {"bvand", "bvor", "bvxor"}, a \in ByteVals, b \in ByteVals}
    \cup {[f |-> f, args |-> a, kw_args |-> NoKw] :
            f \in {"bvand", "bvlshr", "bvshl", "extz", "exts", "page", "asid", "vmid"},
            a \in {<<>>, <<Bits(NatBits(240), 8)>>, <<Bits(NatBits(240), 8), Bits({2}, 8)>>,
                   <<from_u64(VA1)>>, <<from_u64(RootHigh)>>,
                   <<Bits(NatBits(240), 8), I128(16)>>,
                   <<Bits(NatBits(66), 16)>>}}

\* Literals of the expression language: 0xF0, 0xAA, 0x0F of width 8.
B_F0 == Bits64(NatBits(240), 8)
B_AA == Bits64(NatBits(170), 8)
B_0F == Bits64(NatBits(15), 8)

\* A string of n hexadecimal digits A.
HexA(n) == Hex([i \in 1 .. n |-> 10])

Atoms ==
    {True, False, B_F0, B_AA, Bits64(VA1, 64), Bits64({0}, 1),
     Loc("x"), Loc("w"), Loc("absent"), Label("start"), Label("absent"),
     HexA(2), HexA(16), HexA(17), Bin(<<1, 0, 1>>), Bin([i \in 1 .. 65 |-> 1]),
     Hex(<<1>>), Hex(<<1, 2, 15>>), Bin(<<1>>), Bin([i \in 1 .. 64 |-> i % 2])}
    \cup {NatLit(n) : n \in 0 .. MaxNat}

BvandApp == App("bvand", <<B_F0, B_AA>>, NoKw)

\* ttbr(base = 0, asid = 0x42, CnP = 0b1)
TtbrApp == App("ttbr", <<>>, [base |-> Bits64({}, 64), asid |-> Hex(<<4, 2>>), CnP |-> Bin(<<1>>)])

\* Calls whose arguments are all atoms.
\* extz(0xF0, 100): an extension beyond 64 bits.
ExtzWide == App("extz", <<B_F0, NatLit(100)>>, NoKw)

Apps ==
    {BvandApp, TtbrApp, App("bvor", <<B_0F, B_F0>>, NoKw), App("bvand", <<B_F0>>, NoKw),
     App("bvand", <<True, B_F0>>, NoKw), App("nosuch", <<B_F0>>, NoKw),
     App("nosuch", <<Loc("absent")>>, NoKw), App("nosuch", <<>>, NoKw),
     App("nosuch", <<HexA(17)>>, NoKw), App("nosuch", <<>>, [base |-> B_F0]),
     App("nosuch", <<B_F0>>, [base |-> Not(True)]),
     App("bvand", <<Loc("absent"), Label("absent")>>, NoKw),
     ExtzWide, App("exts", <<B_F0, NatLit(72)>>, NoKw),
     App("extz", <<B_F0, NatLit(64)>>, NoKw)}
    \cup {App(f, <<Loc("x"), Bits64(Root1, 64)>>, NoKw) : f \in {"pa", "pte3", "desc3"}}
    \cup {App(f, <<>>, kw) :
            f \in {"index", "offset"},
            kw \in KwChoices({"level", "va", "ipa"},
                             [level |-> {NatLit(3)},
                              va |-> {Bits64(VA1, 64), Loc("absent")},
                              ipa |-> {Label("absent")}])}
    \cup {App("mkdesc1", <<>>, kw) :
            kw \in KwChoices({"table", "oa"},
                             [table |-> {Bits64(Root1, 64)}, oa |-> {Loc("x")}])}

Base == Atoms \cup Apps

\* The sub-expressions the connectives are built over.
Small == {True, B_F0, Loc("x"), Loc("absent"), BvandApp, Not(True)}

Locs ==
    {Register("X0", 0), Register("X1", 1)}
    \cup {LastWriteTo(a, n) : a \in {"x", "z", "w", "absent"}, n \in 1 .. MaxBytes}

SmallSeqs == {<<>>} \cup {<<a>> : a \in Small} \cup {<<a, b>> : a \in Small, b \in Small}

Level1 ==
    {Not(b) : b \in Base}
    \cup {EqLoc(Register("X0", 0), b) : b \in Base}
    \cup {EqLoc(l, e) : l \in Locs, e \in Small}
    \cup {And(es) : es \in SmallSeqs}
    \cup {Or(es) : es \in SmallSeqs}
    \cup {Implies(a, b) : a \in Small, b \in Small}
    \cup {App(f, <<a, b>>, NoKw) : f \in {"bvand", "nosuch"}, a \in Small, b \in Small}
    \cup {App("index", <<>>, kw) :
            kw \in KwChoices({"level", "va", "ipa"},
                             [level |-> {NatLit(3), Not(True)},
                              va |-> {Bits64(VA1, 64), Not(True)},
                              ipa |-> {Label("absent"), Not(Loc("x"))}])}

Level2 ==
    {Implies(True, EqLoc(Register("X0", 0), BvandApp)),
     App("bvand", <<App("bvor", <<B_0F, B_F0>>, NoKw), B_AA>>, NoKw),
     Not(Not(True)), Not(EqLoc(LastWriteTo("x", 1), BvandApp)),
     And(<<Implies(True, False), Or(<<Loc("x"), Not(B_F0)>>)>>),
     App("bvand", <<App("bvor", <<Not(True), B_F0>>, NoKw), B_AA>>, NoKw),
     App("nosuch", <<App("nosuch", <<B_F0>>, NoKw)>>, NoKw),
     App("index", <<>>, [level |-> App("index", <<>>, [level |-> NatLit(3),
                                                      va |-> Bits64(VA1, 64)]),
                         va |-> Loc("y")]),
     EqLoc(LastWriteTo("z", 1), Implies(Loc("z"), HexA(17))),
     And(<<True, ExtzWide>>), Or(<<ExtzWide>>), Implies(ExtzWide, True),
     EqLoc(LastWriteTo("x", 1), ExtzWide),
     Or(<<And(<<>>), EqLoc(Register("X1", 1), App("pa", <<Loc("x"), Bits64(Root1, 64)>>, NoKw))>>)}

Exps == Base \cup Level1 \cup Level2

\* Partial results of every kind: residuals, and values that are vectors
\* (one of them 100 bits wide), booleans, integers (one negative), the unit
\* and a symbolic value.
Partials ==
    {Unevaluated(Not(True)), Unevaluated(Loc("x")), Unevaluated(BvandApp),
     Evaluated(Bits(NatBits(240), 8)), Evaluated(from_u64(VA1)),
     Evaluated(Bits({0, 70}, 100)), Evaluated(Bool(TRUE)), Evaluated(Bool(FALSE)),
     Evaluated(I128(0)), Evaluated(I128(511)), Evaluated(I128(-1)), Evaluated(I128(-256)),
     Evaluated(Unit), Evaluated(Symbolic)}

RECURSIVE HasKw(_)
\* Whether an App with keyword arguments occurs in the expression.
HasKw(e) ==
    CASE e.tag \in {"EqLoc", "Not"} -> HasKw(e.exp)
      [] e.tag \in {"And", "Or"} -> \E i \in DOMAIN e.exps : HasKw(e.exps[i])
      [] e.tag = "Implies" -> HasKw(e.exp1) \/ HasKw(e.exp2)
      [] e.tag = "App" ->
            \/ DOMAIN e.kw_args # {}
            \/ \E i \in DOMAIN e.args : HasKw(e.args[i])
      [] OTHER -> FALSE

\* The orders a hasher may visit the keyword arguments of e in (one, when e
\* has none): the keyword visited first.
HashSeeds(e) == IF HasKw(e) THEN {"va", "ipa"} ELSE {"va"}

----------------------------------------------------------------------------
(* The operations. *)

\* interrogate_model before its scan: empty maps.
ScanIdle ==
    /\ scanned = <<>>
    /\ init_complete = FALSE
    /\ initial_memory = <<>>
    /\ current_memory = <<>>
    /\ initial_registers = <<>>
    /\ current_registers = <<>>
    /\ scan_status = "scanning"

\* The server before its first request.
ServerIdle ==
    /\ WORKERS = 0
    /\ requests = [r \in 1 .. MaxInFlight |-> [pc |-> "free", num |-> 0, failed |-> ""]]
    /\ served = 0

\* A Lexer of the empty input, before its first call.
LexIdle ==
    /\ lex_input = <<>>
    /\ lex_pos = 0
    /\ lex_pc = "new"
    /\ lex_result = [kind |-> "none", tok |-> "", from |-> 0, to |-> 0]

Init ==
    /\ ScanIdle
    /\ ServerIdle
    /\ LexIdle
    /\ \E env \in Envs :
        /\ memory = env.memory
        /\ addrs = env.addrs
        /\ pas = env.pas
        /\ overflow_checks = env.oc
    /\ objdump = Objdump
    /\ call = [op |-> "none"]
    /\ result = Ok(Unit)
    /\ evaluations = <<>>
    /\ closure = [made |-> FALSE]
    /\ invocations = [i \in 1 .. MaxInvocations |-> [state |-> "idle"]]

Env == <<memory, addrs, pas, objdump, overflow_checks>>

\* What a single call leaves alone: the record of earlier evaluations and
\* the callback of reset_eval.
Session == <<evaluations, closure, invocations>>

\* translation_table_walk(args, memory)
Walk(args) ==
    /\ call.op = "none"
    /\ call' = [op |-> "translation_table_walk", args |-> args]
    /\ result' = translation_table_walk(args, memory, overflow_checks)
    /\ UNCHANGED <<Env, Session, Others>>

\* A primitive of the table, called on values.
CallPrimop(c) ==
    /\ call.op = "none"
    /\ call' = [op |-> "primop", f |-> c.f, args |-> c.args, kw_args |-> c.kw_args]
    /\ result' = litmus_primops(c.f, c.args, c.kw_args, memory, overflow_checks)
    /\ UNCHANGED <<Env, Session, Others>>

\* pa_u64(args, _, memory, _)
PaU64(args) ==
    /\ call.op = "none"
    /\ call' = [op |-> "pa_u64", args |-> args]
    /\ result' = pa_u64(args, NoKw, memory, overflow_checks)
    /\ UNCHANGED <<Env, Session, Others>>

\* partial_eval(exp, memory, addrs, pas, objdump, solver)
PartialEval(exp, seed) ==
    /\ call.op = "none"
    /\ call' = [op |-> "partial_eval", exp |-> exp, seed |-> seed]
    /\ result' = partial_eval(exp, memory, addrs, pas, objdump, overflow_checks, seed)
    /\ UNCHANGED <<Env, Session, Others>>

\* Partial::into_exp on what partial_eval returned.
IntoExp ==
    /\ call.op = "partial_eval"
    /\ result.ok
    /\ call' = [op |-> "into_exp", exp |-> call.exp, partial |-> result.val]
    /\ result' = into_exp(result.val)
    /\ UNCHANGED <<Env, Session, Others>>

\* Partial::into_exp on a partial result of any kind.
IntoExpOf(partial) ==
    /\ call.op = "none"
    /\ call' = [op |-> "into_exp_of", partial |-> partial]
    /\ result' = into_exp(partial)
    /\ UNCHANGED <<Env, Session, Others>>

\* eval(exp, memory, addrs, objdump, solver)
Eval(exp, seed) ==
    /\ call.op = "none"
    /\ call' = [op |-> "eval", exp |-> exp, seed |-> seed]
    /\ result' = eval(exp, memory, addrs, objdump, overflow_checks, seed)
    /\ UNCHANGED <<Env, Session, Others>>

\* eval_loc(loc, physical_addrs)
EvalLoc(loc) ==
    /\ call.op = "none"
    /\ call' = [op |-> "eval_loc", loc |-> loc]
    /\ result' = Ok(eval_loc(loc, pas))
    /\ UNCHANGED <<Env, Session, Others>>

Next ==
    \/ \E args \in WalkArgs : Walk(args)
    \/ \E c \in PrimCalls : CallPrimop(c)
    \/ \E args \in WalkArgs : PaU64(args)
    \/ \E exp \in Exps : \E seed \in HashSeeds(exp) : PartialEval(exp, seed)
    \/ IntoExp
    \/ \E partial \in Partials : IntoExpOf(partial)
    \/ \E exp \in Exps : \E seed \in HashSeeds(exp) : Eval(exp, seed)
    \/ \E loc \in Locs : EvalLoc(loc)

Spec == Init /\ [][Next]_vars

----------------------------------------------------------------------------
(* Partial evaluations made one after the other, by a caller that may move *)
(* to other tables and another memory image between them.                  *)

\* pa of the address of x under the root 0x1000: a walk that reads memory.
PaOfX == App("pa", <<Loc("x"), Bits64(Root1, 64)>>, NoKw)

PureExps == {Loc("x"), Loc("y"), PaOfX, Not(Loc("x"))}

\* partial_eval(exp, memory, addrs, pas, objdump, solver), recorded with its
\* inputs and its result.
Evaluate(exp, seed) ==
    /\ Len(evaluations) < MaxEvals
    /\ call' = [op |-> "partial_eval", exp |-> exp, seed |-> seed]
    /\ result' = partial_eval(exp, memory, addrs, pas, objdump, overflow_checks, seed)
    /\ evaluations' = Append(evaluations,
            [exp |-> exp, seed |-> seed, memory |-> memory, addrs |-> addrs,
             pas |-> pas, objdump |-> objdump, result |-> result'])
    /\ UNCHANGED <<Env, closure, invocations, Others>>

\* The caller replaces its memory image and its address tables.
Rebind(env) ==
    /\ env.oc = overflow_checks
    /\ <<env.memory, env.addrs, env.pas>> # <<memory, addrs, pas>>
    /\ memory' = env.memory
    /\ addrs' = env.addrs
    /\ pas' = env.pas
    /\ UNCHANGED <<objdump, overflow_checks, call, result, Session, Others>>

PureNext ==
    \/ \E exp \in PureExps : \E seed \in HashSeeds(exp) : Evaluate(exp, seed)
    \/ \E env \in Envs : Rebind(env)

PureSpec == Init /\ [][PureNext]_vars

----------------------------------------------------------------------------
(* The callback of reset_eval, invoked by the executor with memories of    *)
(* its own while the caller goes on to change its tables.                  *)

\* The callback reading the caller's tables instead of copies of them.
reset_call_borrowed(c, mem, oc) == eval(c.exp, mem, addrs, objdump, oc, c.seed)

\* The body of the callback: eval of the captured expression against the
\* memory it is invoked with, the captured addresses and disassembly.
reset_call(c, mem, oc) == eval(c.exp, mem, c.addrs, c.objdump, oc, c.seed)

\* reset_eval(exp, addrs, objdump): the callback holds exp.clone(),
\* addrs.clone() and objdump.to_string(); the clone of an expression keeps
\* the iteration order of its keyword maps.
reset_eval(exp, ad, dump, seed) ==
    [made |-> TRUE, exp |-> exp, seed |-> seed, addrs |-> ad, objdump |-> dump]

Memories == {env.memory : env \in Envs}

ResetExps == {PaOfX, Loc("x"), Label("start"), Not(Loc("x"))}

ResetEval(exp, seed) ==
    /\ ~closure.made
    /\ call' = [op |-> "reset_eval", exp |-> exp, seed |-> seed, addrs |-> addrs,
                objdump |-> objdump]
    /\ closure' = reset_eval(exp, addrs, objdump, seed)
    /\ UNCHANGED <<Env, result, evaluations, invocations, Others>>

\* The executor calls the callback with a memory and a solver of its own.
Invoke(i, mem) ==
    /\ closure.made
    /\ invocations[i].state = "idle"
    /\ invocations' = [invocations EXCEPT ![i] = [state |-> "running", memory |-> mem]]
    /\ UNCHANGED <<Env, call, result, evaluations, closure, Others>>

\* The callback returns.
Complete(i) ==
    /\ invocations[i].state = "running"
    /\ invocations' = [invocations EXCEPT ![i] =
            [state |-> "done", memory |-> invocations[i].memory,
             result |-> reset_call(closure, invocations[i].memory, overflow_checks)]]
    /\ UNCHANGED <<Env, call, result, evaluations, closure, Others>>

ResetNext ==
    \/ \E exp \in ResetExps : \E seed \in HashSeeds(exp) : ResetEval(exp, seed)
    \/ \E i \in 1 .. MaxInvocations : \E mem \in Memories : Invoke(i, mem)
    \/ \E i \in 1 .. MaxInvocations : Complete(i)
    \/ \E env \in Envs : Rebind(env)

ResetSpec == Init /\ [][ResetNext]_vars

----------------------------------------------------------------------------
(* interrogate_model (src/isla-testgen/src/extract_state.rs): the scan of  *)
(* the event trace that separates the state before the test from the state *)
(* the test leaves.                                                        *)

\* The expression language at rest, in one environment.
ExpIdle ==
    /\ memory = ImgWalk
    /\ addrs = AddrsA
    /\ pas = PasA
    /\ overflow_checks = FALSE
    /\ objdump = Objdump
    /\ call = [op |-> "none"]
    /\ result = Ok(Unit)
    /\ evaluations = <<>>
    /\ closure = [made |-> FALSE]
    /\ invocations = [i \in 1 .. MaxInvocations |-> [state |-> "idle"]]

ExpVars == <<Env, call, result, Session>>

\* Option<T>
Some(v) == [some |-> TRUE, v |-> v]
None == [some |-> FALSE]

\* HashMap::insert(k, v)
Insert(m, k, v) == [x \in DOMAIN m \cup {k} |-> IF x = k THEN v ELSE m[x]]

\* register_types: R0 is a 64-bit register, R1 a 32-bit one, V0 a 128-bit
\* one, PSTATE a struct; RX has no type.
register_types ==
    [R0 |-> [ty |-> "Bits", sz |-> 64], R1 |-> [ty |-> "Bits", sz |-> 32],
     V0 |-> [ty |-> "Bits", sz |-> 128], PSTATE |-> [ty |-> "Struct", sz |-> 0]]

\* Some(ir::Ty::Bits(sz)) if *sz <= 64
IsSmallBits(reg) ==
    /\ reg \in DOMAIN register_types
    /\ register_types[reg].ty = "Bits"
    /\ register_types[reg].sz <= 64

\* Events.  A value or address of an event is what get_model_val returns
\* for it: Ok(Some(b)), Ok(None) when the model leaves it open, or an error.
Instr == [kind |-> "Instr"]
Cycle == [kind |-> "Cycle"]
ReadMem(address, bytes, value) ==
    [kind |-> "ReadMem", address |-> address, bytes |-> bytes, value |-> value]
WriteMem(address, bytes, data) ==
    [kind |-> "WriteMem", address |-> address, bytes |-> bytes, value |-> data]
ReadReg(reg, accessors, value) ==
    [kind |-> "ReadReg", reg |-> reg, accessors |-> accessors, value |-> value]
WriteReg(reg, accessors, value) ==
    [kind |-> "WriteReg", reg |-> reg, accessors |-> accessors, value |-> value]

\* The state of the scan as one record.
ScanState ==
    [init_complete |-> init_complete, initial_memory |-> initial_memory,
     current_memory |-> current_memory, initial_registers |-> initial_registers,
     current_registers |-> current_registers, status |-> scan_status]

\* A `?` or a panic: the scan ends with the error.
scan_fail(s, err) == [s EXCEPT !.status = err.kind]

\* val.bits.to_le_bytes()[i]
le_byte(val, i) == ToNat(Field(val.bits, 8 * i, 8))

\* One byte of a read that records it as initial whatever is known of it.
read_byte_always(s, byte_address, byte_val) ==
    [s EXCEPT !.initial_memory = Insert(s.initial_memory, byte_address, byte_val),
              !.current_memory = Insert(s.current_memory, byte_address, Some(byte_val))]

\* One byte of a read: current_memory.insert(..).is_none() decides whether
\* the byte goes into initial_memory.
read_byte(s, byte_address, byte_val) ==
    IF byte_address \in DOMAIN s.current_memory
    THEN [s EXCEPT !.current_memory = Insert(s.current_memory, byte_address, Some(byte_val))]
    ELSE [s EXCEPT !.initial_memory = Insert(s.initial_memory, byte_address, byte_val),
                   !.current_memory = Insert(s.current_memory, byte_address, Some(byte_val))]

RECURSIVE read_bytes(_, _, _, _, _)
\* for i in 0..*bytes of the ReadMem arm, from byte i on.
read_bytes(s, address, val, i, bytes) ==
    IF i >= bytes THEN s
    ELSE read_bytes(read_byte(s, ToNat(address.bits) + i, le_byte(val, i)),
                    address, val, i + 1, bytes)

RECURSIVE write_bytes(_, _, _, _, _)
\* for i in 0..*bytes of the WriteMem arm, from byte i on; val is the
\* Option the model gave for the data.
write_bytes(s, address, val, i, bytes) ==
    IF i >= bytes THEN s
    ELSE write_bytes(
             [s EXCEPT !.current_memory =
                 Insert(s.current_memory, ToNat(address.bits) + i,
                        IF val.some THEN Some(le_byte(val.v, i)) ELSE None)],
             address, val, i + 1, bytes)

\* Event::ReadMem { .. } if init_complete
scan_read_mem(s, ev) ==
    IF ~ev.address.ok THEN scan_fail(s, ev.address)
    ELSE IF ~ev.address.val.some THEN scan_fail(s, Err("Panic", <<"Arbitrary address">>))
    ELSE IF ~ev.value.ok THEN scan_fail(s, ev.value)
    ELSE IF ~ev.value.val.some THEN s
    ELSE IF 8 * ev.bytes # ev.value.val.v.len
    THEN scan_fail(s, Err("Type", <<"Memory read had wrong number of bytes">>))
    ELSE read_bytes(s, ev.address.val.v, ev.value.val.v, 0, ev.bytes)

\* Event::WriteMem { .. }
scan_write_mem(s, ev) ==
    IF ~ev.address.ok THEN scan_fail(s, ev.address)
    ELSE IF ~ev.address.val.some THEN scan_fail(s, Err("Panic", <<"Arbitrary address">>))
    ELSE IF ~ev.value.ok THEN scan_fail(s, ev.value)
    ELSE write_bytes(s, ev.address.val.v, ev.value.val, 0, ev.bytes)

\* Event::ReadReg(reg, accessors, value) if init_complete
scan_read_reg(s, ev) ==
    IF IsSmallBits(ev.reg)
    THEN IF ~ev.value.ok THEN scan_fail(s, ev.value)
         ELSE IF ev.reg \notin DOMAIN s.current_registers /\ ev.accessors = <<>>
                 /\ ev.value.val.some
         THEN [s EXCEPT !.current_registers =
                            Insert(s.current_registers, ev.reg,
                                   [post_init |-> TRUE, val |-> ev.value.val]),
                        !.initial_registers =
                            Insert(s.initial_registers, ev.reg, ev.value.val.v)]
         ELSE [s EXCEPT !.current_registers =
                            Insert(s.current_registers, ev.reg,
                                   [post_init |-> TRUE, val |-> ev.value.val])]
    ELSE IF ev.reg \notin DOMAIN register_types
    THEN scan_fail(s, Err("Panic", <<"called unwrap on a None value">>))
    ELSE s

\* Event::WriteReg(reg, accessors, value)
scan_write_reg(s, ev) ==
    IF IsSmallBits(ev.reg)
    THEN IF ev.accessors = <<>>
         THEN IF ~ev.value.ok THEN scan_fail(s, ev.value)
              ELSE [s EXCEPT !.current_registers =
                                 Insert(s.current_registers, ev.reg,
                                        [post_init |-> s.init_complete, val |-> ev.value.val])]
         ELSE [s EXCEPT !.current_registers =
                            Insert(s.current_registers, ev.reg,
                                   [post_init |-> s.init_complete, val |-> None])]
    ELSE s

\* The body of `for event in events`: the match on the event.
scan_event(s, ev) ==
    CASE ev.kind = "ReadMem" /\ s.init_complete -> scan_read_mem(s, ev)
      [] ev.kind = "WriteMem" -> scan_write_mem(s, ev)
      [] ev.kind = "ReadReg" /\ s.init_complete -> scan_read_reg(s, ev)
      [] ev.kind = "WriteReg" -> scan_write_reg(s, ev)
      [] ev.kind = "Instr" -> [s EXCEPT !.init_complete = TRUE]
      [] OTHER -> s

\* Values of the model: bytes and words.
Byte(n) == Ok(Some(Bits(NatBits(n), 8)))
Ambivalent == Ok(None)
Address(n) == Ok(Some(Bits(NatBits(n), 64)))

ScanEvents ==
    {Instr, Cycle,
     ReadMem(Address(0), 1, Byte(1)),
     ReadMem(Address(0), 2, Ok(Some(Bits(NatBits(770), 16)))),
     ReadMem(Address(1), 1, Byte(5)),
     ReadMem(Address(0), 1, Ambivalent),
     ReadMem(Address(0), 2, Byte(1)),
     ReadMem(Ambivalent, 1, Byte(1)),
     WriteMem(Address(0), 1, Byte(7)),
     WriteMem(Address(1), 1, Ambivalent),
     ReadReg("R0", <<>>, Address(1)),
     ReadReg("R0", <<>>, Address(2)),
     ReadReg("R0", <<>>, Ambivalent),
     ReadReg("R0", <<"EL">>, Address(1)),
     ReadReg("R0", <<>>, Err("Z3Error", <<"Bad model value">>)),
     ReadReg("V0", <<>>, Address(1)),
     ReadReg("RX", <<>>, Address(1)),
     WriteReg("R0", <<>>, Address(9)),
     WriteReg("R0", <<"EL">>, Address(9)),
     WriteReg("V0", <<>>, Address(9))}

\* One iteration of the scan.
Scan(ev) ==
    /\ scan_status = "scanning"
    /\ Len(scanned) < MaxEvents
    /\ scanned' = Append(scanned, ev)
    /\ init_complete' = scan_event(ScanState, ev).init_complete
    /\ initial_memory' = scan_event(ScanState, ev).initial_memory
    /\ current_memory' = scan_event(ScanState, ev).current_memory
    /\ initial_registers' = scan_event(ScanState, ev).initial_registers
    /\ current_registers' = scan_event(ScanState, ev).current_registers
    /\ scan_status' = scan_event(ScanState, ev).status
    /\ UNCHANGED <<ExpVars, ServerVars, LexVars>>

ScanInit == ExpIdle /\ ScanIdle /\ ServerIdle /\ LexIdle

ScanNext == \E ev \in ScanEvents : Scan(ev)

ScanSpec == ScanInit /\ [][ScanNext]_vars

----------------------------------------------------------------------------
(* The web server (src/web/server/src/server.rs): spawn_worker_err takes a *)
(* slot of the WORKERS counter, runs a worker process and gives the slot   *)
(* back.  Requests run as tasks of a multi-threaded executor: every atomic *)
(* operation and every await is a step of its own.                         *)

MAX_WORKERS == 10

\* usize::MAX, what fetch_sub leaves in a counter that was 0; written -1.
usize_MAX == -1

Slots == 1 .. MaxInFlight

at(r, pc) == requests[r].pc = pc
goto(r, pc) == [requests EXCEPT ![r].pc = pc]

\* A `?` that returns the error: the function is left at once.
fail(r, what) == [requests EXCEPT ![r].pc = "err", ![r].failed = what]

\* The limit test with the limit itself allowed.
below_limit_inclusive(num) == num <= MAX_WORKERS

\* num < MAX_WORKERS
below_limit(num) == num < MAX_WORKERS

\* What the server leaves alone.
ServerRest == <<ExpVars, ScanVars, LexVars>>

\* A request arrives and its task starts spawn_worker_err; tasks are not
\* told apart, the lowest free place stands for the new one.
Arrive(r) ==
    /\ at(r, "free")
    /\ \A q \in 1 .. (r - 1) : ~at(q, "free")
    /\ served < MaxRequests
    /\ served' = served + 1
    /\ requests' = [requests EXCEPT ![r] = [pc |-> "load", num |-> 0, failed |-> ""]]
    /\ UNCHANGED <<WORKERS, ServerRest>>

\* let num = WORKERS.load(..); if num < MAX_WORKERS && ..
Load(r) ==
    /\ at(r, "load")
    /\ requests' = [requests EXCEPT ![r].num = WORKERS,
                                    ![r].pc = IF below_limit(WORKERS) THEN "cas" ELSE "yield"]
    /\ UNCHANGED <<WORKERS, served, ServerRest>>

\* WORKERS.compare_and_swap(num, num + 1, ..) == num
CompareAndSwap(r) ==
    /\ at(r, "cas")
    /\ IF WORKERS = requests[r].num
       THEN /\ WORKERS' = requests[r].num + 1
            /\ requests' = [requests EXCEPT ![r].pc = "spawn", ![r].num = 0]
       ELSE /\ requests' = goto(r, "yield")
            /\ UNCHANGED WORKERS
    /\ UNCHANGED <<served, ServerRest>>

\* task::yield_now().await, then the next iteration of the loop
Yield(r) ==
    /\ at(r, "yield")
    /\ requests' = goto(r, "load")
    /\ UNCHANGED <<WORKERS, served, ServerRest>>

\* Command::new(..) .. .spawn()?
SpawnChild(r) ==
    /\ at(r, "spawn")
    /\ \E spawned \in BOOLEAN :
        requests' = IF spawned THEN goto(r, "write") ELSE fail(r, "spawn")
    /\ UNCHANGED <<WORKERS, served, ServerRest>>

\* child.stdin.take().unwrap().write_all(&bincode::serialize(&req)?).await?
WriteRequest(r) ==
    /\ at(r, "write")
    /\ \E written \in BOOLEAN :
        requests' = IF written THEN goto(r, "await") ELSE fail(r, "write")
    /\ UNCHANGED <<WORKERS, served, ServerRest>>

\* let status = child.await?; if status.success() { .. } else { .. }
AwaitChild(r) ==
    /\ at(r, "await")
    /\ \E status \in {"error", "success", "failure"} :
        requests' = CASE status = "error" -> fail(r, "await")
                      [] status = "success" -> goto(r, "read")
                      [] status = "failure" -> goto(r, "json")
    /\ UNCHANGED <<WORKERS, served, ServerRest>>

\* stdout.read_to_end(&mut response).await?
ReadResponse(r) ==
    /\ at(r, "read")
    /\ \E read \in BOOLEAN :
        requests' = IF read THEN goto(r, "utf8") ELSE fail(r, "read")
    /\ UNCHANGED <<WORKERS, served, ServerRest>>

\* String::from_utf8(response)?
FromUtf8(r) ==
    /\ at(r, "utf8")
    /\ \E valid \in BOOLEAN :
        requests' = IF valid THEN goto(r, "release") ELSE fail(r, "utf8")
    /\ UNCHANGED <<WORKERS, served, ServerRest>>

\* serde_json::to_string(&Response::InternalError)?
InternalError(r) ==
    /\ at(r, "json")
    /\ \E serialized \in BOOLEAN :
        requests' = IF serialized THEN goto(r, "release") ELSE fail(r, "json")
    /\ UNCHANGED <<WORKERS, served, ServerRest>>

\* let num = WORKERS.fetch_sub(1, ..); assert!(num != 0); .. Ok(response)
Release(r) ==
    /\ at(r, "release")
    /\ WORKERS' = IF WORKERS = 0 THEN usize_MAX ELSE WORKERS - 1
    /\ requests' = IF WORKERS = 0 THEN fail(r, "assert") ELSE goto(r, "ok")
    /\ UNCHANGED <<served, ServerRest>>

\* spawn_worker: the response, or the rejection made of the error; the task
\* ends.
Respond(r) ==
    /\ at(r, "ok") \/ at(r, "err")
    /\ requests' = [requests EXCEPT ![r] = [pc |-> "free", num |-> 0, failed |-> ""]]
    /\ UNCHANGED <<WORKERS, served, ServerRest>>

ServerStep(r) ==
    \/ Arrive(r)
    \/ Load(r)
    \/ CompareAndSwap(r)
    \/ Yield(r)
    \/ SpawnChild(r)
    \/ WriteRequest(r)
    \/ AwaitChild(r)
    \/ ReadResponse(r)
    \/ FromUtf8(r)
    \/ InternalError(r)
    \/ Release(r)
    \/ Respond(r)

ServerInit == ExpIdle /\ ScanIdle /\ ServerIdle /\ LexIdle

ServerNext == \E r \in Slots : ServerStep(r)

ServerSpec == ServerInit /\ [][ServerNext]_vars

----------------------------------------------------------------------------
(* The lexer of cat files (src/isla-cat/src/cat_lexer.rs).  Characters are *)
(* one-character strings, the input a sequence of them; every iteration of *)
(* a loop of the lexer is a step.                                          *)

\* self.buf
buf == SubSeq(lex_input, lex_pos + 1, Len(lex_input))

starts_with(b, word) == Len(b) >= Len(word) /\ SubSeq(b, 1, Len(word)) = word

\* char::is_whitespace, char::is_ascii_alphanumeric on the characters used
is_whitespace(c) == c \in {" ", "\n", "\t", "\r"}
Letters ==
    {"a", "b", "c", "d", "e", "f", "g", "h", "i", "j", "k", "l", "m", "n", "o", "p", "q", "r",
     "s", "t", "u", "v", "w", "x", "y", "z"}
Digits == {"0", "1", "2", "3", "4", "5", "6", "7", "8", "9"}
is_ascii_alphanumeric(c) == c \in Letters \cup Digits

\* What a call of next returns: Some(Ok((from, tok, to))), Some(Err(LexError
\* { pos })), None.
Token(tok, from, to) == [kind |-> "token", tok |-> tok, from |-> from, to |-> to]
LexError(pos) == [kind |-> "error", tok |-> "LexError", from |-> pos, to |-> pos]
EndOfInput == [kind |-> "end", tok |-> "", from |-> 0, to |-> 0]

\* CAT_ID_REGEX, ^[a-zA-Z_][0-9a-zA-Z_.-]*: the end of its match in b, 0
\* when b does not start with an identifier.
id_char(c) == is_ascii_alphanumeric(c) \/ c \in {"_", ".", "-"}
CAT_ID_REGEX(b) ==
    IF b = <<>> \/ b[1] \notin Letters \cup {"_"} THEN 0
    ELSE CHOOSE end \in 1 .. Len(b) :
             /\ \A i \in 1 .. end : id_char(b[i])
             /\ end = Len(b) \/ ~id_char(b[end + 1])

\* The keywords tried for a first character, in the order of next.
Keyword(word, tok) == [word |-> word, tok |-> tok]
KW_ACYCLIC == Keyword(<<"a", "c", "y", "c", "l", "i", "c">>, "Acyclic")
KW_AS == Keyword(<<"a", "s">>, "As")
KW_AND == Keyword(<<"a", "n", "d">>, "And")
KW_EMPTY == Keyword(<<"e", "m", "p", "t", "y">>, "Empty")
KW_FLAG == Keyword(<<"f", "l", "a", "g">>, "Flag")
KW_INCLUDE == Keyword(<<"i", "n", "c", "l", "u", "d", "e">>, "Include")
KW_IN == Keyword(<<"i", "n">>, "In")
KW_IRREFLEXIVE == Keyword(<<"i", "r", "r", "e", "f", "l", "e", "x", "i", "v", "e">>, "Irreflexive")
KW_ISLA_SPECIAL_COS ==
    Keyword(<<"i", "s", "l", "a", "_", "s", "p", "e", "c", "i", "a", "l", "_", "c", "o", "s">>,
            "IslaSpecialCos")
KW_LET == Keyword(<<"l", "e", "t">>, "Let")
KW_REC == Keyword(<<"r", "e", "c">>, "Rec")
KW_SHOW == Keyword(<<"s", "h", "o", "w">>, "Show")
KW_TRY == Keyword(<<"t", "r", "y">>, "Try")
KW_UNSHOW == Keyword(<<"u", "n", "s", "h", "o", "w">>, "Unshow")
KW_WITH == Keyword(<<"w", "i", "t", "h">>, "With")
KW_PLUS_PLUS == Keyword(<<"+", "+">>, "PlusPlus")
KW_INVERSE == Keyword(<<"^", "-", "1">>, "Inverse")
KW_HATPLUS == Keyword(<<"^", "+">>, "HatPlus")
KW_HATSTAR == Keyword(<<"^", "*">>, "HatStar")

KeywordsOf(next) ==
    CASE next = "a" -> <<KW_ACYCLIC, KW_AS, KW_AND>>
      [] next = "e" -> <<KW_EMPTY>>
      [] next = "f" -> <<KW_FLAG>>
      [] next = "i" -> <<KW_INCLUDE, KW_IN, KW_IRREFLEXIVE, KW_ISLA_SPECIAL_COS>>
      [] next = "l" -> <<KW_LET>>
      [] next = "r" -> <<KW_REC>>
      [] next = "s" -> <<KW_SHOW>>
      [] next = "t" -> <<KW_TRY>>
      [] next = "u" -> <<KW_UNSHOW>>
      [] next = "w" -> <<KW_WITH>>
      [] next = "+" -> <<KW_PLUS_PLUS>>
      [] next = "^" -> <<KW_INVERSE, KW_HATPLUS, KW_HATSTAR>>
      [] OTHER -> <<>>

\* lex_keyword!: the keyword is there and no identifier character follows.
lex_keyword(b, keyword) ==
    /\ starts_with(b, keyword.word)
    /\ Len(b) = Len(keyword.word) \/ ~id_char(b[Len(keyword.word) + 1])

\* lex_char!: the characters that are a token by themselves.
lex_char ==
    [c \in {"=", ")", "{", "}", "[", "]", "~", "|", "&", "*", ";", ",", "\\", "0", "?", "+", "("} |->
        CASE c = "=" -> "Eq" [] c = ")" -> "Rparen" [] c = "{" -> "Lbrace" [] c = "}" -> "Rbrace"
          [] c = "[" -> "Lsquare" [] c = "]" -> "Rsquare" [] c = "~" -> "Tilde" [] c = "|" -> "Bar"
          [] c = "&" -> "Amp" [] c = "*" -> "Star" [] c = ";" -> "SemiColon" [] c = "," -> "Comma"
          [] c = "\\" -> "Backslash" [] c = "0" -> "Zero" [] c = "?" -> "Question"
          [] c = "+" -> "Plus" [] c = "(" -> "Lparen"]

\* consume_string_literal: the number of characters of the literal at the
\* start of b with its quotes, 0 when the closing quote is missing.
consume_string_literal(b) ==
    IF \E e \in 2 .. Len(b) : b[e] = "\""
    THEN CHOOSE e \in 2 .. Len(b) : b[e] = "\"" /\ \A i \in 2 .. (e - 1) : b[i] # "\""
    ELSE 0

\* The identifier at the start of b, or the lex error.
lex_regex(b, pos) ==
    IF CAT_ID_REGEX(b) > 0 THEN Token("Id", pos, pos + CAT_ID_REGEX(b)) ELSE LexError(pos)

\* The branches of next that return at once, for a buffer b that starts
\* with a character other than white space, '#' and "(*", at position pos.
lex_token(b, pos) ==
    LET matching == {k \in DOMAIN KeywordsOf(b[1]) : lex_keyword(b, KeywordsOf(b[1])[k])}
        first == KeywordsOf(b[1])[CHOOSE k \in matching : \A j \in matching : k <= j]
    IN  CASE matching # {} -> Token(first.tok, pos, pos + Len(first.word))
          [] matching = {} /\ b[1] \in {"a", "e", "f", "i", "l", "r", "s", "t", "u", "w"} ->
                 lex_regex(b, pos)
          [] matching = {} /\ b[1] = "+" -> Token("Plus", pos, pos + 1)
          [] matching = {} /\ b[1] = "^" -> LexError(pos)
          [] matching = {} /\ b[1] = "\"" ->
                 IF consume_string_literal(b) > 0
                 THEN Token("String", pos, pos + consume_string_literal(b))
                 ELSE LexError(pos)
          [] matching = {} /\ b[1] \in DOMAIN lex_char \ {"+"} -> Token(lex_char[b[1]], pos, pos + 1)
          [] OTHER -> lex_regex(b, pos)

\* What the lexer leaves alone.
LexRest == <<ExpVars, ScanVars, ServerVars>>

\* A call of next on a lexer that has not reached its end.
LexCall ==
    /\ lex_pc = "new" \/ (lex_pc = "returned" /\ lex_result.kind = "token")
    /\ lex_pc' = "whitespace"
    /\ UNCHANGED <<lex_input, lex_pos, lex_result, LexRest>>

\* One iteration of consume_whitespace, then `let next = ..?`.
ConsumeWhitespace ==
    /\ lex_pc = "whitespace"
    /\ IF buf = <<>>
       THEN lex_pc' = "returned" /\ lex_result' = EndOfInput /\ UNCHANGED lex_pos
       ELSE IF is_whitespace(buf[1])
       THEN lex_pos' = lex_pos + 1 /\ UNCHANGED <<lex_pc, lex_result>>
       ELSE lex_pc' = "next" /\ UNCHANGED <<lex_pos, lex_result>>
    /\ UNCHANGED <<lex_input, LexRest>>

\* The if-else chain of next on the character next.
Dispatch ==
    /\ lex_pc = "next"
    /\ IF buf[1] = "#"
       THEN lex_pc' = "line_comment" /\ UNCHANGED <<lex_pos, lex_result>>
       ELSE IF starts_with(buf, <<"(", "*">>)
       THEN lex_pc' = "comment" /\ UNCHANGED <<lex_pos, lex_result>>
       ELSE /\ lex_result' = lex_token(buf, lex_pos)
            /\ lex_pos' = lex_token(buf, lex_pos).to
            /\ lex_pc' = "returned"
    /\ UNCHANGED <<lex_input, LexRest>>

\* One iteration of the loop of consume_line_comment; after it, return
\* self.next().  At the end of the input the iteration changes nothing and
\* the loop goes on.
ConsumeLineComment ==
    /\ lex_pc = "line_comment"
    /\ IF buf = <<>>
       THEN UNCHANGED <<lex_pos, lex_pc>>
       ELSE IF buf[1] = "\n"
       THEN lex_pos' = lex_pos + 1 /\ lex_pc' = "whitespace"
       ELSE lex_pos' = lex_pos + 1 /\ UNCHANGED lex_pc
    /\ UNCHANGED <<lex_input, lex_result, LexRest>>

\* One iteration of the loop of consume_comment; true: return self.next(),
\* false: the lex error at the end of next.
ConsumeComment ==
    /\ lex_pc = "comment"
    /\ IF buf = <<>>
       THEN lex_pc' = "returned" /\ lex_result' = LexError(lex_pos) /\ UNCHANGED lex_pos
       ELSE IF starts_with(buf, <<"*", ")">>)
       THEN lex_pos' = lex_pos + 2 /\ lex_pc' = "whitespace" /\ UNCHANGED lex_result
       ELSE lex_pos' = lex_pos + 1 /\ UNCHANGED <<lex_pc, lex_result>>
    /\ UNCHANGED <<lex_input, LexRest>>

\* The characters of the inputs and the inputs.
LexChars == {"a", "s", " ", "\n", "#", "(", "*", ")", "\""}
LexInputs == UNION {[1 .. n -> LexChars] : n \in 0 .. MaxInput}

\* Lexer::new(input)
LexInit ==
    /\ ExpIdle /\ ScanIdle /\ ServerIdle
    /\ lex_input \in LexInputs
    /\ lex_pos = 0
    /\ lex_pc = "new"
    /\ lex_result = [kind |-> "none", tok |-> "", from |-> 0, to |-> 0]

LexNext ==
    \/ LexCall
    \/ ConsumeWhitespace
    \/ Dispatch
    \/ ConsumeLineComment
    \/ ConsumeComment

\* The lexer runs: a call is made while there may be a token left, and a
\* call made goes on from iteration to iteration.
LexSpec == LexInit /\ [][LexNext]_vars /\ WF_vars(LexNext)

----------------------------------------------------------------------------
(* The translation-table walk: what its fields hold.                       *)

\* The lowest bit of the table index of a level, with 4 KiB pages.
IndexLow(level) ==
    CASE level = 0 -> 39 [] level = 1 -> 30 [] level = 2 -> 21 [] level = 3 -> 12

\* The 9-bit table index of va at a level, as a word.
TableIndex(va, level) ==
    {i - IndexLow(level) : i \in va \cap (IndexLow(level) .. (IndexLow(level) + 8))}

\* Eight times that index: the byte offset of the entry in its table.
TableOffset(va, level) == {i + 3 : i \in TableIndex(va, level)}

\* The little-endian word of the 8 bytes at a .. a+7: bit p of the word is
\* bit (p mod 8) of the byte at a + (p div 8).
MemWord(mem, a) ==
    {p \in 0 .. 63 : (p % 8) \in ByteBits(mem, Add64(a, NatBits(p \div 8)))}

RECURSIVE WalkPte(_, _, _, _)
RECURSIVE WalkDesc(_, _, _, _)
\* The entry address of level k: the root, or the table the descriptor of
\* level k-1 names without its two low bits, plus the entry's byte offset.
WalkPte(va, root, mem, k) ==
    IF k = 0 THEN Add64(root, TableOffset(va, 0))
    ELSE Add64(WalkDesc(va, root, mem, k - 1) \ {0, 1}, TableOffset(va, k))

\* The descriptor of level k: the word of memory at the entry address.
WalkDesc(va, root, mem, k) == MemWord(mem, WalkPte(va, root, mem, k))

PteField(k) == <<"l0pte", "l1pte", "l2pte", "l3pte">>[k + 1]
DescField(k) == <<"l0desc", "l1desc", "l2desc", "l3desc">>[k + 1]
PtePrimop(k) == <<"pte0", "pte1", "pte2", "pte3">>[k + 1]
DescPrimop(k) == <<"desc0", "desc1", "desc2", "desc3">>[k + 1]

IsWalk == call.op = "translation_table_walk"
IsPrimop(f) == call.op = "primop" /\ call.f = f

WalkVa == lower_u64(call.args[1])
WalkRoot == lower_u64(call.args[2])

\* The fields a walk primitive returns are those of the walk of its
\* arguments, and it fails as that walk fails.
SameWalk(field) ==
    IF translation_table_walk(call.args, memory, overflow_checks).ok
    THEN result =
            Ok(from_u64(translation_table_walk(call.args, memory, overflow_checks).val[field]))
    ELSE result = translation_table_walk(call.args, memory, overflow_checks)

\* C1: a walk that returns records, for each level k, lkpte = the root (k = 0)
\* or the previous level's descriptor without its two low bits (k > 0), plus
\* eight times the level's index of va, in u64 arithmetic, and lkdesc = the
\* 8-byte initial-memory value at lkpte; pte0..pte3 and desc0..desc3 return
\* these fields of the walk of their arguments.
WalkFieldsChained ==
    /\ (IsWalk /\ result.ok) =>
          \A k \in 0 .. 3 :
              /\ result.val[PteField(k)] = WalkPte(WalkVa, WalkRoot, memory, k)
              /\ result.val[DescField(k)] = WalkDesc(WalkVa, WalkRoot, memory, k)
    /\ \A k \in 0 .. 3 :
          /\ IsPrimop(PtePrimop(k)) =>
                /\ SameWalk(PteField(k))
                /\ result.ok =>
                      result.val = from_u64(WalkPte(WalkVa, WalkRoot, memory, k))
          /\ IsPrimop(DescPrimop(k)) =>
                /\ SameWalk(DescField(k))
                /\ result.ok =>
                      result.val = from_u64(WalkDesc(WalkVa, WalkRoot, memory, k))

\* A walk of 0x0000_0100_8060_4567 through descriptors that carry flag bits:
\* the level-0 descriptor is 0x2007 and the level-1 entry is at 0x2014.
WalkFieldsChainedWitness ==
    /\ IsWalk
    /\ result.ok
    /\ result.val.l0desc = Limbs(0, 0, 0, 8199)
    /\ result.val.l1pte = Limbs(0, 0, 0, 8212)
    /\ result.val.l3pte = Limbs(0, 0, 0, 16416)

\* C2: when the walk succeeds, pa is the level-3 descriptor's bits 12..47
\* joined with the low 12 bits of va; the same holds of the values pa, desc3
\* and pa_u64 return.
PaIsFrameAndOffset ==
    /\ (IsWalk /\ result.ok) =>
          result.val.pa = (result.val.l3desc \cap (12 .. 47)) \cup (WalkVa \cap (0 .. 11))
    /\ (IsPrimop("pa") /\ result.ok) =>
          /\ desc3(call.args, call.kw_args, memory, overflow_checks).ok
          /\ result.val.bits =
                (desc3(call.args, call.kw_args, memory, overflow_checks).val.bits
                    \cap (12 .. 47))
                \cup (WalkVa \cap (0 .. 11))
    /\ (call.op = "pa_u64" /\ result.ok) =>
          result.val = (WalkDesc(WalkVa, WalkRoot, memory, 3) \cap (12 .. 47))
                       \cup (WalkVa \cap (0 .. 11))

\* pa of 0x0000_0100_8060_4567 through the page descriptor
\* 0x0040_0000_0009_AFFF, which has bits below 12 and above 47: 0x9_A567.
PaIsFrameAndOffsetWitness ==
    /\ IsPrimop("pa")
    /\ result.ok
    /\ desc3(call.args, call.kw_args, memory, overflow_checks).val.bits = Limbs(64, 0, 9, 45055)
    /\ result.val.bits = Limbs(0, 0, 9, 42343)

\* The walk of 0x0 from 0x1000 in a memory that holds 0x2003 at 0x1000, 0x3003
\* at 0x2000, 0x4003 at 0x3000 and 0x5000_0000_0000_0040 at 0x4000.
Scenario3 ==
    /\ IsWalk
    /\ call.args = <<from_u64(VA0), from_u64(Root1)>>
    /\ {Limbs(0, 0, 0, 4096), Limbs(0, 0, 0, 8192), Limbs(0, 0, 0, 12288),
        Limbs(0, 0, 0, 16384)} \subseteq DOMAIN memory
    /\ memory[Limbs(0, 0, 0, 4096)] = Word(0, 0, 0, 8195)
    /\ memory[Limbs(0, 0, 0, 8192)] = Word(0, 0, 0, 12291)
    /\ memory[Limbs(0, 0, 0, 12288)] = Word(0, 0, 0, 16387)
    /\ memory[Limbs(0, 0, 0, 16384)] = Word(20480, 0, 0, 64)

\* C3 (as amended): in that scenario the walk succeeds, reads the descriptor
\* 0x5000_0000_0000_0040 at level 3 and yields pa = 0x0, the descriptor's
\* bits 48..63 and 0..11 being masked off.
Scenario3PaIsZero ==
    Scenario3 =>
        /\ result.ok
        /\ result.val.l3desc = Limbs(20480, 0, 0, 64)
        /\ result.val.pa = {}

Scenario3PaIsZeroWitness == Scenario3 /\ result.ok /\ result.val.l3pte = Limbs(0, 0, 0, 16384)

\* C3 as stated: in that scenario the walk yields pa = 0x5000_0000_0000_0000.
Scenario3PaIsHigh == Scenario3 => (result.ok /\ result.val.pa = Limbs(20480, 0, 0, 0))

----------------------------------------------------------------------------
(* Partial evaluation, eval and eval_loc.                                  *)

IsPartialEval == call.op = "partial_eval"

\* The partial evaluation of a sub-expression of the call's expression, in
\* the call's environment.
Sub(e) == partial_eval(e, memory, addrs, pas, objdump, overflow_checks, call.seed)

AppArgs(e) == [i \in DOMAIN e.args |-> Sub(e.args[i])]
AppKw(e) == [k \in DOMAIN e.kw_args |-> Sub(e.kw_args[k])]

AllOk(rs) == \A i \in DOMAIN rs : rs[i].ok
AllEvaluated(rs) == \A i \in DOMAIN rs : rs[i].val.tag = "Evaluated"
AllIntoExp(rs) == \A i \in DOMAIN rs : into_exp(rs[i].val).ok

\* What the primitive f returns on the values of evaluated arguments.
Applied(f, args, kw) ==
    litmus_primops(f, [i \in DOMAIN args |-> args[i].val.val],
                   [k \in DOMAIN kw |-> kw[k].val.val], memory, overflow_checks)

\* The App of f over the expressions the arguments' results turn back into.
Rebuilt(f, args, kw) ==
    App(f, [i \in DOMAIN args |-> into_exp(args[i].val).val],
        [k \in DOMAIN kw |-> into_exp(kw[k].val).val])

\* Implies(True, EqLoc(X0 of thread 0, bvand(0xF0, 0xAA))) and what it
\* partially evaluates to.
FoldExample == Implies(True, EqLoc(Register("X0", 0), BvandApp))
FoldExampleResult == Implies(True, EqLoc(Register("X0", 0), Bits64(NatBits(160), 8)))

\* C4: partial_eval of App(f, pos, kw) whose arguments all evaluate calls the
\* primitive f on their values and returns its value as Evaluated (or its
\* error); when some argument is unevaluated it returns Unevaluated(App) of
\* the same f, with the same positions and keywords, each child the into_exp
\* form of the argument's partial evaluation.  bvand(0xF0, 0xAA) under
\* Implies/EqLoc is folded to 0xA0 of width 8.
AppFoldsOrRebuilds ==
    /\ (/\ IsPartialEval
        /\ call.exp.tag = "App"
        /\ AllOk(AppArgs(call.exp))
        /\ AllOk(AppKw(call.exp))) =>
          IF AllEvaluated(AppArgs(call.exp)) /\ AllEvaluated(AppKw(call.exp))
          THEN call.exp.f \in PrimopNames =>
                  IF Applied(call.exp.f, AppArgs(call.exp), AppKw(call.exp)).ok
                  THEN result = Ok(Evaluated(
                           Applied(call.exp.f, AppArgs(call.exp), AppKw(call.exp)).val))
                  ELSE result = Applied(call.exp.f, AppArgs(call.exp), AppKw(call.exp))
          ELSE (AllIntoExp(AppArgs(call.exp)) /\ AllIntoExp(AppKw(call.exp))) =>
                  /\ result.ok
                  /\ result.val.tag = "Unevaluated"
                  /\ result.val.exp.tag = "App"
                  /\ result.val.exp.f = call.exp.f
                  /\ DOMAIN result.val.exp.args = DOMAIN call.exp.args
                  /\ DOMAIN result.val.exp.kw_args = DOMAIN call.exp.kw_args
                  /\ result.val.exp =
                        Rebuilt(call.exp.f, AppArgs(call.exp), AppKw(call.exp))
    /\ (IsPartialEval /\ call.exp = FoldExample) =>
          result = Ok(Unevaluated(FoldExampleResult))

\* An App with keyword arguments of which one evaluates (to a Nat literal in
\* the residual) and another does not.
AppFoldsOrRebuildsWitness ==
    /\ IsPartialEval
    /\ call.exp.tag = "App"
    /\ result.ok
    /\ result.val.tag = "Unevaluated"
    /\ \E k \in DOMAIN call.exp.kw_args :
          /\ call.exp.kw_args[k].tag = "Nat"
          /\ result.val.exp.kw_args[k] = call.exp.kw_args[k]
    /\ \E k \in DOMAIN call.exp.kw_args : call.exp.kw_args[k].tag = "Not"

RECURSIVE HasConnective(_)
\* Whether an EqLoc, And, Or, Not or Implies node occurs in the expression,
\* at any depth the evaluator descends to.
HasConnective(e) ==
    CASE e.tag \in {"EqLoc", "And", "Or", "Not", "Implies"} -> TRUE
      [] e.tag = "App" ->
            \/ \E i \in DOMAIN e.args : HasConnective(e.args[i])
            \/ \E k \in DOMAIN e.kw_args : HasConnective(e.kw_args[k])
      [] OTHER -> FALSE

\* C5: a partial evaluation that succeeds returns Unevaluated exactly when
\* the expression holds an EqLoc, And, Or, Not or Implies node, and Evaluated
\* otherwise.
UnevaluatedIffConnective ==
    (IsPartialEval /\ result.ok) =>
        /\ result.val.tag \in {"Evaluated", "Unevaluated"}
        /\ (result.val.tag = "Unevaluated") <=> HasConnective(call.exp)

\* A call whose argument's argument is a Not: unevaluated; and its root is
\* no connective.
UnevaluatedIffConnectiveWitness ==
    /\ IsPartialEval
    /\ result.ok
    /\ call.exp = App("bvand", <<App("bvor", <<Not(True), B_F0>>, NoKw), B_AA>>, NoKw)
    /\ result.val.tag = "Unevaluated"

\* The partial evaluation eval wraps: that of its expression with no
\* physical addresses.
EvalPartial ==
    partial_eval(call.exp, memory, addrs, <<>>, objdump, overflow_checks, call.seed)

\* C6 (as amended): eval returns Ok(v) exactly when the partial evaluation
\* with no physical addresses returns Evaluated(v), returns every error of
\* the partial evaluation unchanged, and returns Unimplemented exactly when
\* the partial evaluation returns Unevaluated or itself fails Unimplemented;
\* a value eval returns is never a residual expression.
EvalWrapsPartialEval ==
    call.op = "eval" =>
        /\ result.ok <=> (EvalPartial.ok /\ EvalPartial.val.tag = "Evaluated")
        /\ result.ok =>
              /\ result.val = EvalPartial.val.val
              /\ result.val.tag \in {"Bits", "Bool", "I128"}
        /\ ~EvalPartial.ok => result = EvalPartial
        /\ IsErr(result, "Unimplemented") <=>
              \/ EvalPartial.ok /\ EvalPartial.val.tag = "Unevaluated"
              \/ IsErr(EvalPartial, "Unimplemented")

\* eval of an expression whose partial evaluation fails Unimplemented (a
\* literal too long for the 64-bit path).
EvalWrapsPartialEvalWitness ==
    /\ call.op = "eval"
    /\ IsErr(result, "Unimplemented")
    /\ IsErr(EvalPartial, "Unimplemented")

\* C6 as stated: eval returns Unimplemented exactly when the partial
\* evaluation returns Unevaluated.
EvalUnimplementedIffUnevaluated ==
    call.op = "eval" =>
        (IsErr(result, "Unimplemented") <=>
            (EvalPartial.ok /\ EvalPartial.val.tag = "Unevaluated"))

\* The location eval_loc is to return: a LastWriteTo with the name's physical
\* address, or 0 when the name has none, and the same bytes; a Register as it is.
Rewritten(loc) ==
    IF loc.tag = "LastWriteTo"
    THEN [tag |-> "LastWriteTo",
          address |-> IF loc.address \in DOMAIN pas THEN pas[loc.address] ELSE {},
          bytes |-> loc.bytes]
    ELSE loc

\* C7: partial_eval of EqLoc(loc, sub) fails only as sub fails, and returns
\* EqLoc with loc rewritten through the physical-address table alone: the
\* name's physical address, 0 when the table has none, a Register unchanged.
\* eval_loc alone returns the same location.
EqLocRewritesViaPas ==
    /\ (IsPartialEval /\ call.exp.tag = "EqLoc") =>
          /\ result.ok <=> then_into_exp(Sub(call.exp.exp)).ok
          /\ result.ok =>
                /\ result.val.tag = "Unevaluated"
                /\ result.val.exp.tag = "EqLoc"
                /\ result.val.exp.loc = Rewritten(call.exp.loc)
          /\ ~result.ok => result = then_into_exp(Sub(call.exp.exp))
    /\ call.op = "eval_loc" => result = Ok(Rewritten(call.loc))

\* EqLoc on the last write to a name that has a virtual address and no
\* physical one: the residual's address is 0.
EqLocRewritesViaPasWitness ==
    /\ IsPartialEval
    /\ call.exp.tag = "EqLoc"
    /\ call.exp.loc.tag = "LastWriteTo"
    /\ call.exp.loc.address \in (DOMAIN addrs) \ (DOMAIN pas)
    /\ result.ok
    /\ result.val.exp.loc = LastWriteTo({}, call.exp.loc.bytes)

\* The literal expressions that evaluate to themselves.
IsLiteral(e) == e.tag \in {"Bits64", "True", "False", "Nat"}

\* C8: a literal Bits64(u, w), True, False or Nat(n) partially evaluates to
\* an Evaluated value, and into_exp of that value is the literal again.
LiteralsRoundTrip ==
    /\ (IsPartialEval /\ IsLiteral(call.exp)) =>
          (result.ok /\ result.val.tag = "Evaluated")
    /\ (call.op = "into_exp" /\ IsLiteral(call.exp)) => result = Ok(call.exp)

\* The round trip of a bit-vector literal narrower than 64 bits.
LiteralsRoundTripWitness ==
    /\ call.op = "into_exp"
    /\ call.exp = Bits64(NatBits(240), 8)
    /\ call.partial = Evaluated(Bits(NatBits(240), 8))
    /\ result = Ok(call.exp)

----------------------------------------------------------------------------
(* The primitives with keyword arguments.                                  *)

HasKeyword(k) == k \in DOMAIN call.kw_args

\* The two keywords of which a primitive takes exactly one.
ExclusivePair(f) ==
    CASE f = "ttbr" -> <<"asid", "vmid">>
      [] f \in {"mkdesc1", "mkdesc2"} -> <<"table", "oa">>
      [] f \in {"index", "offset"} -> <<"va", "ipa">>

\* The error of a failed exclusivity check.
ExclusivityError(f) ==
    CASE f = "ttbr" -> Err("Type", <<"ttbr", "must have either a vmid or an asid argument">>)
      [] f \in {"mkdesc1", "mkdesc2"} ->
            Err("Type", <<"mkdesc", "must have either a table or an oa argument">>)
      [] f \in {"index", "offset"} ->
            Err("Type", <<f, "must have either a va or an ipa argument">>)

\* C9: ttbr, mkdesc1, mkdesc2, index and offset return a Type error when both
\* keywords of their pair are given and when neither is, and do not fail the
\* exclusivity check when exactly one is given.
PairIsExclusive ==
    \A f \in {"ttbr", "mkdesc1", "mkdesc2", "index", "offset"} :
        IsPrimop(f) =>
            IF HasKeyword(ExclusivePair(f)[1]) = HasKeyword(ExclusivePair(f)[2])
            THEN IsErr(result, "Type")
            ELSE result # ExclusivityError(f)

\* ttbr given a base and both asid and vmid.
PairIsExclusiveWitness ==
    /\ IsPrimop("ttbr")
    /\ {"base", "asid", "vmid"} \subseteq DOMAIN call.kw_args
    /\ result = ExclusivityError("ttbr")

\* The address keyword an index/offset call was given.
GivenAddress == IF HasKeyword("va") THEN call.kw_args.va ELSE call.kw_args.ipa

\* Whether the level and the address of an index/offset call are concrete
\* and the level is one of 0..3.
IndexArgsValid ==
    /\ call.kw_args.level.tag = "I128"
    /\ call.kw_args.level.n \in 0 .. 3
    /\ GivenAddress.tag = "Bits"

\* The index the call is to return, as a number.
IndexValue == ToNat(TableIndex(GivenAddress.bits, call.kw_args.level.n))

\* 0x0000_7FC0_0000_1234
IndexExampleVa == from_u64(Limbs(0, 32704, 0, 4660))

\* C10: index(level = k, va) returns the 9-bit field of va at bits 12..20
\* (k = 3), 21..29 (2), 30..38 (1), 39..47 (0), a number in 0..511, and offset
\* returns 8 times that index as a 64-bit vector; of 0x0000_7FC0_0000_1234
\* the indices at levels 3, 0, 2 are 1, 255, 0 and the level-3 offset is 8; a
\* level outside 0..3 or an argument that is not concrete is a Type error.
IndexIsLevelField ==
    /\ \A f \in {"index", "offset"} :
          (/\ IsPrimop(f)
           /\ HasKeyword("level")
           /\ HasKeyword("va") # HasKeyword("ipa")) =>
              IF IndexArgsValid
              THEN /\ result.ok
                   /\ f = "index" =>
                         /\ result.val = I128(IndexValue)
                         /\ result.val.n \in 0 .. 511
                   /\ f = "offset" =>
                         /\ result.val.tag = "Bits"
                         /\ result.val.len = 64
                         /\ result.val.bits =
                               TableOffset(GivenAddress.bits, call.kw_args.level.n)
                         /\ ToNat(result.val.bits) = 8 * IndexValue
              ELSE IsErr(result, "Type")
    /\ \A k \in {0, 2, 3} :
          (/\ IsPrimop("index")
           /\ call.kw_args = [level |-> I128(k), va |-> IndexExampleVa]) =>
              result = Ok(I128(CASE k = 3 -> 1 [] k = 0 -> 255 [] k = 2 -> 0))
    /\ (/\ IsPrimop("offset")
        /\ call.kw_args = [level |-> I128(3), va |-> IndexExampleVa]) =>
          result = Ok(from_u64({3}))

\* index of 0x0000_7FC0_0000_1234 at level 0: 255.
IndexIsLevelFieldWitness ==
    /\ IsPrimop("index")
    /\ call.kw_args = [level |-> I128(0), va |-> IndexExampleVa]
    /\ result = Ok(I128(255))

\* The identifier a ttbr call was given, and its CnP bit (0 when not given).
TtbrId == IF HasKeyword("asid") THEN call.kw_args.asid ELSE call.kw_args.vmid
TtbrCnP == IF HasKeyword("CnP") THEN call.kw_args.CnP.bits ELSE {}

\* base with the identifier over the bits from 48 and CnP over bit 0.
TtbrValue ==
    ((call.kw_args.base.bits \ (48 .. (47 + TtbrId.len))) \ {0})
    \cup {48 + i : i \in TtbrId.bits} \cup TtbrCnP

\* C11: ttbr with a 64-bit base, one of asid/vmid (at most 16 bits wide) and
\* an optional CnP returns base with the identifier written over the bits
\* from 48 and the CnP bit (0 when not given) over bit 0, every other bit of
\* base unchanged; ttbr(base = 0, asid = 0x42, CnP = 1) is
\* 0x0042_0000_0000_0001, called on values and as an expression.
TtbrWritesSlices ==
    /\ (/\ IsPrimop("ttbr")
        /\ HasKeyword("base")
        /\ HasKeyword("asid") # HasKeyword("vmid")) =>
          result = Ok(Bits(TtbrValue, 64))
    /\ (/\ IsPrimop("ttbr")
        /\ call.kw_args = [base |-> from_u64({}), asid |-> Bits(NatBits(66), 8),
                           CnP |-> Bits({0}, 1)]) =>
          result = Ok(from_u64(Limbs(66, 0, 0, 1)))
    /\ (IsPartialEval /\ call.exp = TtbrApp) =>
          result = Ok(Evaluated(from_u64(Limbs(66, 0, 0, 1))))

\* ttbr of a base with bits set at 0, 12, 47 and 48..63, a 16-bit vmid and
\* no CnP: the vmid replaces bits 48..63 and bit 0 is cleared.
TtbrWritesSlicesWitness ==
    /\ IsPrimop("ttbr")
    /\ call.kw_args = [base |-> from_u64(Limbs(65535, 0, 32768, 4097)),
                       vmid |-> Bits(NatBits(7), 16)]
    /\ result = Ok(from_u64(Limbs(7, 0, 32768, 4096)))

\* Whether the call is asid or vmid on a single 16-bit value.
IsAsidCall(f) ==
    /\ IsPrimop(f)
    /\ Len(call.args) = 1
    /\ call.args[1].tag = "Bits"
    /\ call.args[1].len = 16

\* C12 as stated: asid(v) and vmid(v) on a single 16-bit value return the
\* 64-bit vector whose bits 48..63 hold v and whose other bits are zero, and
\* the two return the same on the same input.
AsidPlacesValueAt48 ==
    \A f \in {"asid", "vmid"} :
        IsAsidCall(f) =>
            /\ result = Ok(Bits({48 + i : i \in call.args[1].bits}, 64))
            /\ asid(call.args, call.kw_args, memory, overflow_checks) = result

\* asid(0x0042) fails: the slice at bit 48 does not lie in the 16-bit zero
\* vector it is written to.
AsidOfValueFails ==
    /\ IsAsidCall("asid")
    /\ call.args = <<Bits(NatBits(66), 16)>>
    /\ IsErr(result, "Type")

\* C13: with A the default stage-1 attributes, mkdesc1 and mkdesc2 return
\* t | 0b11 for table = t (A not applied) and o | 0b01 | A for oa = o, and
\* agree on every input; mkdesc3 returns o | 0b11 | A for oa = o and a Type
\* error when oa is not given; mkdesc3(oa = 0x4000) is 0x4000 | 0b11 | A.
MkdescTagsAndAttrs ==
    /\ \A f \in {"mkdesc1", "mkdesc2"} :
          IsPrimop(f) =>
              /\ (HasKeyword("table") /\ ~HasKeyword("oa")) =>
                    result = Ok(from_u64(call.kw_args.table.bits \cup {0, 1}))
              /\ (HasKeyword("oa") /\ ~HasKeyword("table")) =>
                    result = Ok(from_u64(call.kw_args.oa.bits \cup {0} \cup S1DefaultAttrs))
              /\ result = litmus_primops("mkdesc1", call.args, call.kw_args, memory,
                                         overflow_checks)
              /\ result = litmus_primops("mkdesc2", call.args, call.kw_args, memory,
                                         overflow_checks)
    /\ IsPrimop("mkdesc3") =>
          IF HasKeyword("oa")
          THEN result = Ok(from_u64(call.kw_args.oa.bits \cup {0, 1} \cup S1DefaultAttrs))
          ELSE IsErr(result, "Type")
    /\ (IsPrimop("mkdesc3") /\ call.kw_args = [oa |-> from_u64(Limbs(0, 0, 0, 16384))]) =>
          result = Ok(from_u64({0, 1, 14} \cup S1DefaultAttrs))

\* mkdesc3 of an output address that has bit 1 clear: the result has it set.
MkdescTagsAndAttrsWitness ==
    /\ IsPrimop("mkdesc3")
    /\ call.kw_args = [oa |-> from_u64(Limbs(0, 0, 0, 16384))]
    /\ result.ok
    /\ {0, 1, 14} \subseteq result.val.bits

\* A call of page with its single argument a 64-bit vector.
IsPageCall ==
    /\ IsPrimop("page")
    /\ Len(call.args) = 1
    /\ call.args[1].tag = "Bits"
    /\ call.args[1].len = 64

\* C14 as stated: for every 64-bit b, page(b) is bits [47:12] of b, a vector
\* of exactly 36 bits.
PageIsBits47To12 ==
    IsPageCall =>
        /\ result.ok
        /\ result.val.len = 36
        /\ result.val.bits = Field(call.args[1].bits, 12, 36)

\* page(0xFFFF_FFFF_FFFF_F808) is 37 bits wide and carries bit 48 of its
\* argument as its bit 36.
PageIsBits48To12 ==
    /\ IsPageCall
    /\ call.args[1] = from_u64(RootHigh)
    /\ result = Ok(Bits(Field(RootHigh, 12, 37), 37))
    /\ 36 \in result.val.bits

\* C15: partial evaluation of Loc(a) is the evaluated 64-bit vector addrs[a]
\* of the virtual table, and a Type error when a is not in it; of Label(s)
\* the evaluated 64-bit address of s in the disassembly, and a Type error
\* when s is not found.  A failure leaves no residual expression.
LocAndLabelResolve ==
    /\ (IsPartialEval /\ call.exp.tag = "Loc") =>
          IF call.exp.a \in DOMAIN addrs
          THEN result = Ok(Evaluated(Bits(addrs[call.exp.a], 64)))
          ELSE IsErr(result, "Type")
    /\ (IsPartialEval /\ call.exp.tag = "Label") =>
          IF call.exp.label \in DOMAIN objdump
          THEN result = Ok(Evaluated(Bits(objdump[call.exp.label], 64)))
          ELSE IsErr(result, "Type")

\* A name with a physical address only is looked up and not found.
LocAndLabelResolveWitness ==
    /\ IsPartialEval
    /\ call.exp = Loc("w")
    /\ "w" \in DOMAIN pas
    /\ IsErr(result, "Type")

\* A partial evaluation of an App whose name is no primitive.
IsUnknownApp ==
    /\ IsPartialEval
    /\ call.exp.tag = "App"
    /\ call.exp.f \notin PrimopNames

\* C16 as stated: an App whose function name is not in the primitive table
\* fails with a Type error, whatever its arguments are.
UnknownAppIsTypeError == IsUnknownApp => IsErr(result, "Type")

\* C16: an App whose function name is not in the primitive table fails
\* with the Type error "Unknown function" when every positional and keyword
\* argument partially evaluates to a value; when an argument fails, its
\* error is the result, and when one is left unevaluated the App is returned
\* as a residual under the same name.
UnknownAppOfValuesIsTypeError ==
    IsUnknownApp =>
        IF AllOk(AppArgs(call.exp)) /\ AllOk(AppKw(call.exp))
        THEN IF AllEvaluated(AppArgs(call.exp)) /\ AllEvaluated(AppKw(call.exp))
             THEN result = Err("Type", <<"Unknown function", call.exp.f>>)
             ELSE (AllIntoExp(AppArgs(call.exp)) /\ AllIntoExp(AppKw(call.exp))) =>
                     /\ result.ok
                     /\ result.val.tag = "Unevaluated"
                     /\ result.val.exp.tag = "App"
                     /\ result.val.exp.f = call.exp.f
        ELSE /\ ~result.ok
             /\ \/ \E i \in DOMAIN call.exp.args : result = Sub(call.exp.args[i])
                \/ \E k \in DOMAIN call.exp.kw_args : result = Sub(call.exp.kw_args[k])

\* An unknown name over a keyword argument that evaluates to a value.
UnknownAppOfValuesIsTypeErrorWitness ==
    /\ IsUnknownApp
    /\ call.exp = App("nosuch", <<>>, [base |-> B_F0])
    /\ result = Err("Type", <<"Unknown function", "nosuch">>)

\* The bits of the number a string of digits in radix 2^k denotes, the last
\* digit the least significant: bit j is bit j % k of the digit j \div k
\* places from the end.
DigitsValue(s, k) ==
    {j \in 0 .. (k * Len(s) - 1) : (s[Len(s) - (j \div k)] \div (2 ^ (j % k))) % 2 = 1}

\* C17: a Hex literal of L digits, 1 <= L <= 16, evaluates to the vector of
\* width 4 * L holding the parsed value, and a Bin literal of L digits,
\* 1 <= L <= 64, to the vector of width L; a longer literal fails with
\* Unimplemented.  0x12F is 303 of width 12 and 0b101 is 5 of width 3.
LiteralWidths ==
    /\ (IsPartialEval /\ call.exp.tag = "Hex" /\ Len(call.exp.hex) >= 1) =>
          IF Len(call.exp.hex) <= 16
          THEN result = Ok(Evaluated(Bits(DigitsValue(call.exp.hex, 4),
                                          4 * Len(call.exp.hex))))
          ELSE result = Err("Unimplemented", <<>>)
    /\ (IsPartialEval /\ call.exp.tag = "Bin" /\ Len(call.exp.bin) >= 1) =>
          IF Len(call.exp.bin) <= 64
          THEN result = Ok(Evaluated(Bits(DigitsValue(call.exp.bin, 1), Len(call.exp.bin))))
          ELSE result = Err("Unimplemented", <<>>)
    /\ (IsPartialEval /\ call.exp = Hex(<<1, 2, 15>>)) =>
          (result.ok /\ ToNat(result.val.val.bits) = 303 /\ result.val.val.len = 12)
    /\ (IsPartialEval /\ call.exp = Bin(<<1, 0, 1>>)) =>
          (result.ok /\ ToNat(result.val.val.bits) = 5 /\ result.val.val.len = 3)

\* Sixteen hexadecimal digits give a 64-bit vector with its top bit set.
LiteralWidthsWitness ==
    /\ IsPartialEval
    /\ call.exp = HexA(16)
    /\ result.ok
    /\ result.val.val.len = 64
    /\ 63 \in result.val.val.bits

\* Evaluations i and j were given the same expression, memory, address
\* tables and disassembly.
SameInputs(i, j) ==
    /\ evaluations[i].exp = evaluations[j].exp
    /\ evaluations[i].seed = evaluations[j].seed
    /\ evaluations[i].memory = evaluations[j].memory
    /\ evaluations[i].addrs = evaluations[j].addrs
    /\ evaluations[i].pas = evaluations[j].pas
    /\ evaluations[i].objdump = evaluations[j].objdump

ResetHoldsCopies ==
    /\ closure.made =>
          /\ call.op = "reset_eval"
          /\ closure.exp = call.exp
          /\ closure.addrs = call.addrs
          /\ closure.objdump = call.objdump
    /\ \A i \in 1 .. MaxInvocations :
          invocations[i].state = "done" =>
              invocations[i].result =
                  eval(call.exp, invocations[i].memory, call.addrs, call.objdump,
                       overflow_checks, call.seed)

\* The caller has changed its table since reset_eval; one invocation has
\* returned what the captured table gives, not what the caller's table now
\* would, while another with a different memory is still running.
ResetHoldsCopiesWitness ==
    /\ closure.made
    /\ addrs # closure.addrs
    /\ invocations[1].state = "done"
    /\ invocations[1].result.ok
    /\ invocations[1].result #
          eval(closure.exp, invocations[1].memory, addrs, objdump, overflow_checks,
               closure.seed)
    /\ invocations[2].state = "running"
    /\ invocations[2].memory # invocations[1].memory

\* The number of positional arguments a primitive takes.
Positionals(f) ==
    CASE f \in WalkPrimops \cup {"bvand", "bvor", "bvxor", "bvlshr", "bvshl", "extz", "exts"} -> 2
      [] f \in {"page", "asid", "vmid"} -> 1
      [] OTHER -> 0

\* A call of index or offset whose keywords are in order but whose level or
\* address is of the wrong kind.
IsKindMismatch(f) ==
    /\ IsPrimop(f)
    /\ HasKeyword("level")
    /\ HasKeyword("va") # HasKeyword("ipa")
    /\ ~IndexArgsValid

\* C20 as stated: every primitive rejects a wrong number of positional
\* arguments and an argument of the wrong kind with a Type error whose
\* message names the primitive called: offset for a kind mismatch in offset,
\* pte0 for a wrong count in pte0, and asid with two arguments is rejected
\* as such.
ArgErrorsNameCaller ==
    /\ \A f \in PrimopNames :
          (IsPrimop(f) /\ Len(call.args) # Positionals(f)) =>
              (IsErr(result, "Type") /\ result.msg[1] = f)
    /\ \A f \in {"index", "offset"} :
          IsKindMismatch(f) => (IsErr(result, "Type") /\ result.msg[1] = f)

\* A kind mismatch in offset is reported under the name index.
OffsetErrorNamesIndex ==
    /\ IsKindMismatch("offset")
    /\ IsErr(result, "Type")
    /\ result.msg[1] = "index"

\* pte0 with one argument is reported under the name translate.
Pte0ErrorNamesTranslate ==
    /\ IsPrimop("pte0")
    /\ Len(call.args) = 1
    /\ result = Err("Type", <<"translate", "must have two arguments">>)

\* asid with two arguments is not reported as a wrong count.
AsidTakesTwo ==
    /\ IsPrimop("asid")
    /\ Len(call.args) = 2
    /\ result # Err("Type", <<"asid(v)", "takes 1 argument">>)
    /\ result = asid(<<call.args[2]>>, call.kw_args, memory, overflow_checks)

\* offset with a positional argument returns a value.
OffsetTakesPositional ==
    /\ IsPrimop("offset")
    /\ Len(call.args) = 1
    /\ result.ok

----------------------------------------------------------------------------
(* The walk's checks and the order of its reads.                           *)

\* The addresses the walk of the call reads.
WalkReads == translation_reads(call.args, memory, overflow_checks)

\* The 8 bytes at a all have a concrete initial value.
ConcreteAt(mem, a) ==
    \A i \in 0 .. 7 :
        /\ ByteMapped(mem, Add64(a, NatBits(i)))
        /\ ~ByteSymbolic(mem, Add64(a, NatBits(i)))

\* C21: translation_table_walk fails with a Type error and reads nothing
\* when it has not exactly two arguments, when the virtual address is no
\* concrete bit-vector, when the table root is none, checked in this order;
\* otherwise it reads the entries of levels 0, 1, 2, 3 in order and fails
\* with BadRead at the first whose read is not concrete, reading no further.
WalkChecksThenReads ==
    IsWalk =>
        /\ Len(call.args) # 2 =>
              /\ result = Err("Type", <<"translate", "must have two arguments">>)
              /\ WalkReads = <<>>
        /\ (Len(call.args) = 2 /\ call.args[1].tag # "Bits") =>
              /\ result = Err("Type",
                     <<"virtual address is not a concrete bitvector for translation">>)
              /\ WalkReads = <<>>
        /\ (Len(call.args) = 2 /\ call.args[1].tag = "Bits" /\ call.args[2].tag # "Bits") =>
              /\ result = Err("Type",
                     <<"Table address is not a concrete bitvector for translation">>)
              /\ WalkReads = <<>>
        /\ (Len(call.args) = 2 /\ call.args[1].tag = "Bits" /\ call.args[2].tag = "Bits") =>
              /\ Len(WalkReads) <= 4
              /\ \A k \in 1 .. Len(WalkReads) :
                    /\ WalkReads[k] = WalkPte(WalkVa, WalkRoot, memory, k - 1)
                    /\ k < Len(WalkReads) => ConcreteAt(memory, WalkReads[k])
              /\ IsErr(result, "BadRead") <=>
                    /\ WalkReads # <<>>
                    /\ ~ConcreteAt(memory, WalkReads[Len(WalkReads)])
              /\ result.ok => Len(WalkReads) = 4

\* A walk whose level-1 descriptor is symbolic: two reads, then BadRead.
WalkChecksThenReadsWitness ==
    /\ IsWalk
    /\ call.args = <<from_u64(VA0), from_u64(Root1)>>
    /\ Len(WalkReads) = 2
    /\ ~ConcreteAt(memory, WalkReads[2])
    /\ IsErr(result, "BadRead")

----------------------------------------------------------------------------
(* The expressions partial evaluation returns.                             *)

RECURSIVE WidthsBounded(_)
\* Every Bits64(u, w) node of the expression has w <= 64.
WidthsBounded(e) ==
    CASE e.tag = "Bits64" -> e.w <= 64
      [] e.tag \in {"Not", "EqLoc"} -> WidthsBounded(e.exp)
      [] e.tag \in {"And", "Or"} -> \A i \in DOMAIN e.exps : WidthsBounded(e.exps[i])
      [] e.tag = "Implies" -> WidthsBounded(e.exp1) /\ WidthsBounded(e.exp2)
      [] e.tag = "App" ->
            /\ \A i \in DOMAIN e.args : WidthsBounded(e.args[i])
            /\ \A k \in DOMAIN e.kw_args : WidthsBounded(e.kw_args[k])
      [] OTHER -> TRUE

\* C22 as stated: every Bits64(u, w) node of an expression returned by
\* partial_eval or by Partial::into_exp has w <= 64, also when an extz or
\* exts to more than 64 bits is evaluated under a connective or an EqLoc.
Bits64WidthAtMost64 ==
    /\ (IsPartialEval /\ result.ok /\ result.val.tag = "Unevaluated") =>
          WidthsBounded(result.val.exp)
    /\ (call.op = "into_exp" /\ result.ok) => WidthsBounded(result.val)

\* Not(extz(0xF0, 100)) is returned as Not(Bits64(0xF0, 100)).
Bits64OfWidth100 ==
    /\ IsPartialEval
    /\ call.exp = Not(ExtzWide)
    /\ result = Ok(Unevaluated(Not(Bits64(NatBits(240), 100))))

\* A call of Partial::into_exp, on a result of partial_eval or on any
\* partial result.
IsIntoExp == call.op \in {"into_exp", "into_exp_of"}

\* C23 as stated: Partial::into_exp returns e for Unevaluated(e); for an
\* evaluated bit-vector Bits64(value, width), for a boolean True or False,
\* for an I128 n the literal Nat(n) of the same integer; for a value of any
\* other kind it fails with a Type error.
IntoExpKeepsInteger ==
    IsIntoExp =>
        CASE call.partial.tag = "Unevaluated" -> result = Ok(call.partial.exp)
          [] call.partial.val.tag = "Bits" ->
                result = Ok(Bits64(lower_u64(call.partial.val), call.partial.val.len))
          [] call.partial.val.tag = "Bool" ->
                result = Ok(IF call.partial.val.b THEN True ELSE False)
          [] call.partial.val.tag = "I128" -> result = Ok(NatLit(call.partial.val.n))
          [] OTHER -> IsErr(result, "Type")

\* into_exp of the integer -1 is the literal 0xFFFF_FFFF_FFFF_FFFF.
IntoExpOfMinusOne ==
    /\ IsIntoExp
    /\ call.partial = Evaluated(I128(-1))
    /\ result = Ok([tag |-> "Nat", u |-> 0 .. 63])

----------------------------------------------------------------------------
(* interrogate_model: what the scan records as the initial state.          *)

\* Positions of the scanned events; the first Instr event (one past the end
\* when there is none).
Positions == 1 .. Len(scanned)
FirstInstr ==
    IF \E i \in Positions : scanned[i].kind = "Instr"
    THEN CHOOSE i \in Positions :
             /\ scanned[i].kind = "Instr"
             /\ \A j \in 1 .. (i - 1) : scanned[j].kind # "Instr"
    ELSE Len(scanned) + 1

\* Event i touches the byte at address a.
Covers(i, a) ==
    /\ scanned[i].address.ok
    /\ scanned[i].address.val.some
    /\ a >= ToNat(scanned[i].address.val.v.bits)
    /\ a < ToNat(scanned[i].address.val.v.bits) + scanned[i].bytes

\* Event i is a read after the first Instr that carries a value for byte a.
ReadsByte(i, a) ==
    /\ scanned[i].kind = "ReadMem"
    /\ i > FirstInstr
    /\ Covers(i, a)
    /\ scanned[i].value.ok
    /\ scanned[i].value.val.some
    /\ scanned[i].value.val.v.len = 8 * scanned[i].bytes

WritesByte(i, a) ==
    /\ scanned[i].kind = "WriteMem"
    /\ Covers(i, a)
    /\ scanned[i].value.ok

GivesByte(i, a) == ReadsByte(i, a) \/ WritesByte(i, a)

ByteRead(i, a) ==
    le_byte(scanned[i].value.val.v, a - ToNat(scanned[i].address.val.v.bits))

\* Event i gives register reg a current value; it is a whole read with a
\* value.
GivesReg(i, reg) ==
    /\ scanned[i].kind \in {"ReadReg", "WriteReg"}
    /\ scanned[i].reg = reg
    /\ IsSmallBits(reg)
    /\ scanned[i].kind = "ReadReg" => i > FirstInstr
    /\ (scanned[i].kind = "ReadReg" \/ scanned[i].accessors = <<>>) => scanned[i].value.ok

WholeRead(i) ==
    /\ scanned[i].kind = "ReadReg"
    /\ scanned[i].accessors = <<>>
    /\ scanned[i].value.val.some

ScanAddresses == 0 .. 2
ScanRegisters == {"R0", "R1", "V0", "PSTATE", "RX"}

\* C24: a byte, and a bit-vector register of at most 64 bits, is in the
\* initial state exactly when the first event that gives it a current value
\* is a read after the first Instr event (for a register: a whole read with
\* a value), and it is recorded with the value of that read; a location
\* written first, or read only before the first Instr, is not recorded, and
\* a later read does not replace the recorded value.
InitialIsFirstRead ==
    /\ \A a \in ScanAddresses :
        /\ a \in DOMAIN initial_memory <=>
               \E i \in Positions :
                   /\ ReadsByte(i, a)
                   /\ \A j \in 1 .. (i - 1) : ~GivesByte(j, a)
        /\ \A i \in Positions :
               (ReadsByte(i, a) /\ \A j \in 1 .. (i - 1) : ~GivesByte(j, a))
                   => initial_memory[a] = ByteRead(i, a)
    /\ DOMAIN initial_memory \subseteq ScanAddresses
    /\ \A reg \in ScanRegisters :
        /\ reg \in DOMAIN initial_registers <=>
               \E i \in Positions :
                   /\ GivesReg(i, reg)
                   /\ WholeRead(i)
                   /\ \A j \in 1 .. (i - 1) : ~GivesReg(j, reg)
        /\ \A i \in Positions :
               (GivesReg(i, reg) /\ WholeRead(i) /\ \A j \in 1 .. (i - 1) : ~GivesReg(j, reg))
                   => initial_registers[reg] = scanned[i].value.val.v
    /\ DOMAIN initial_registers \subseteq ScanRegisters

\* A write of byte 0, then the first Instr, then a two-byte read of 0 and 1:
\* only byte 1 is initial.
InitialIsFirstReadWitness ==
    /\ Len(scanned) = 3
    /\ scanned[1].kind = "WriteMem"
    /\ scanned[2].kind = "Instr"
    /\ scanned[3].kind = "ReadMem"
    /\ scanned[3].bytes = 2
    /\ scan_status = "scanning"
    /\ DOMAIN initial_memory = {1}
    /\ initial_memory[1] = 3
    /\ DOMAIN current_memory = {0, 1}

\* A register read twice after the first Instr keeps the first value.
InitialRegisterKept ==
    /\ Len(scanned) = 3
    /\ scanned[1].kind = "Instr"
    /\ scanned[2] = ReadReg("R0", <<>>, Address(1))
    /\ scanned[3] = ReadReg("R0", <<>>, Address(2))
    /\ initial_registers["R0"] = Bits(NatBits(1), 64)

----------------------------------------------------------------------------
(* The web server: the WORKERS counter.                                    *)

InFlight == {r \in Slots : ~at(r, "free")}

\* C25: under every interleaving of the requests' loads, compare-and-swaps
\* and releases, the WORKERS counter is at least 0 and at most MAX_WORKERS.
WorkersWithinLimit == WORKERS >= 0 /\ WORKERS <= MAX_WORKERS

\* The counter is at the limit and a request that loaded the limit was
\* refused and yields.
WorkersWithinLimitWitness ==
    /\ WORKERS = MAX_WORKERS
    /\ \E r \in Slots : at(r, "yield") /\ requests[r].num = MAX_WORKERS

\* Two requests loaded the same value and the compare-and-swap of the
\* second was refused.
CompareAndSwapRefused ==
    \E r \in Slots : at(r, "yield") /\ requests[r].num < WORKERS

----------------------------------------------------------------------------
(* The web server: a slot taken is given back.                             *)

\* The requests between their compare-and-swap and their fetch_sub.
Holding == {r \in Slots : requests[r].pc \in {"spawn", "write", "await", "read", "utf8", "json", "release"}}

\* C26: a request that took a slot gives it back on every way out of
\* spawn_worker_err, so the counter counts the requests that hold a slot
\* and is 0 when no request is in flight.
SlotsAreReleased ==
    /\ WORKERS = Cardinality(Holding)
    /\ InFlight = {} => WORKERS = 0

\* The only request failed to spawn its worker and returned the error; its
\* slot is still counted.
SpawnFailureKeepsSlot ==
    /\ \E r \in Slots : at(r, "err") /\ requests[r].failed = "spawn" /\ InFlight = {r}
    /\ WORKERS = 1

\* Every slot is counted and nobody holds one: the waiting request is
\* refused at each iteration.
AllSlotsLost ==
    /\ WORKERS = MAX_WORKERS
    /\ Holding = {}
    /\ \E r \in Slots : at(r, "yield")

----------------------------------------------------------------------------
(* The cat lexer: a call of next returns.                                  *)

\* C27: every call of Lexer::next returns, whatever the input: a call that
\* is running leads to one that has returned.
NextTerminates == (lex_pc \in {"whitespace", "next", "line_comment", "comment"}) ~> (lex_pc = "returned")

\* A '#' comment has reached the end of the input without a newline: the
\* loop of consume_line_comment is at an empty buffer.
LineCommentAtEnd ==
    /\ lex_pc = "line_comment"
    /\ buf = <<>>
    /\ lex_input = <<"a", "#", "s">>

\* A "(*" comment that is not closed: next returns the lex error.
UnclosedCommentReturns ==
    /\ lex_input = <<"(", "*", "a">>
    /\ lex_pc = "returned"
    /\ lex_result = LexError(3)

----------------------------------------------------------------------------
(* The translation-table walk: the width of its sums.                      *)

RECURSIVE WalkSums(_, _, _, _)
\* The pairs of operands the walk adds from the given level on, a being the
\* table address of that level, as the wrapping build goes through them;
\* a build that checks its sums stops at the first pair that overflows.
WalkSums(va, mem, a, level) ==
    LET off == NatBits(level_index(va, level) * 8)
        desc == read_desc(mem, Add64(a, off))
    IN  <<<<a, off>>>> \o
        (IF ~desc.ok THEN <<>>
         ELSE IF level = 3 THEN <<<<desc.val \cap PageMask, page_offset(va)>>>>
         ELSE WalkSums(va, mem, desc.val \ {0, 1}, level + 1))

IsFullWalk ==
    /\ IsWalk
    /\ Len(call.args) = 2
    /\ call.args[1].tag = "Bits"
    /\ call.args[2].tag = "Bits"

\* C28: no sum of a walk exceeds 64 bits: neither the table address plus
\* eight times the index, at any level, nor the page plus the page offset.
WalkSumsFitIn64 ==
    IsFullWalk =>
        \A i \in DOMAIN WalkSums(WalkVa, memory, WalkRoot, 0) :
            ~Overflows(WalkSums(WalkVa, memory, WalkRoot, 0)[i][1],
                       WalkSums(WalkVa, memory, WalkRoot, 0)[i][2])

\* The root 0xFFFF_FFFF_FFFF_F808 with level-0 index 255: the entry address
\* is 2^64, and the build that checks its sums panics.
RootPlusIndexOverflows ==
    /\ IsFullWalk
    /\ WalkRoot = RootHigh
    /\ WalkVa = VA1
    /\ Overflows(RootHigh, NatBits(level_index(VA1, 0) * 8))
    /\ overflow_checks
    /\ result = Err("Panic", <<"attempt to add with overflow">>)

\* The same walk in the build that wraps reads its level-0 entry at address 0.
RootPlusIndexWraps ==
    /\ IsFullWalk
    /\ WalkRoot = RootHigh
    /\ WalkVa = VA1
    /\ ~overflow_checks
    /\ translation_reads(call.args, memory, overflow_checks)[1] = {}

\* A descriptor of all ones met at level 0: the level-1 entry address
\* overflows.
DescriptorPlusIndexOverflows ==
    /\ IsFullWalk
    /\ Len(WalkSums(WalkVa, memory, WalkRoot, 0)) >= 2
    /\ ~Overflows(WalkRoot, NatBits(level_index(WalkVa, 0) * 8))
    /\ Overflows(WalkSums(WalkVa, memory, WalkRoot, 0)[2][1], WalkSums(WalkVa, memory, WalkRoot, 0)[2][2])

----------------------------------------------------------------------------
(* Partial evaluation: what a residual expression is made of.              *)

RECURSIVE Resolved(_)
\* The expression has no Loc, Label, Bin or Hex node, its atoms are True,
\* False, Bits64 and Nat, and the address of every LastWriteTo is a 64-bit
\* number.
Resolved(e) ==
    CASE e.tag \in {"True", "False", "Bits64", "Nat"} -> TRUE
      [] e.tag = "EqLoc" ->
            /\ e.loc.tag = "LastWriteTo" => e.loc.address \subseteq 0 .. 63
            /\ Resolved(e.exp)
      [] e.tag = "Not" -> Resolved(e.exp)
      [] e.tag \in {"And", "Or"} -> \A i \in DOMAIN e.exps : Resolved(e.exps[i])
      [] e.tag = "Implies" -> Resolved(e.exp1) /\ Resolved(e.exp2)
      [] e.tag = "App" ->
            /\ \A i \in DOMAIN e.args : Resolved(e.args[i])
            /\ \A k \in DOMAIN e.kw_args : Resolved(e.kw_args[k])
      [] OTHER -> FALSE

\* C29: an expression partial_eval returns as Unevaluated has no Loc,
\* Label, Bin or Hex node; its atoms are True, False, Bits64 and Nat, and
\* every LastWriteTo in it carries a 64-bit address.
ResidualIsResolved ==
    (IsPartialEval /\ result.ok /\ result.val.tag = "Unevaluated") => Resolved(result.val.exp)

\* A name under two connectives, and a hexadecimal literal and a label under
\* one, come back as Bits64 nodes.
ResidualIsResolvedWitness ==
    /\ IsPartialEval
    /\ call.exp = And(<<Implies(True, False), Or(<<Loc("x"), Not(B_F0)>>)>>)
    /\ result = Ok(Unevaluated(And(<<Implies(True, False),
                                     Or(<<Bits64(addrs["x"], 64), Not(B_F0)>>)>>)))

\* The last write to a name without a physical address, over a residual
\* function call: address 0.
ResidualOfAbsentAddress ==
    /\ IsPartialEval
    /\ call.exp.tag = "EqLoc"
    /\ call.exp.loc = LastWriteTo("absent", 1)
    /\ result.ok
    /\ result.val.exp.loc.address = {}
    /\ Resolved(result.val.exp)

----------------------------------------------------------------------------
(* Partial evaluation: which error is reported.                            *)

\* The call's expression evaluated with the keyword arguments visited in
\* the order of seed.
InOrder(seed) == partial_eval(call.exp, memory, addrs, pas, objdump, overflow_checks, seed)

\* C30: the error partial_eval returns depends on the expression and the
\* tables alone: whatever the order the keyword arguments of an App are
\* visited in, the same error is returned.
ErrorIndependentOfOrder ==
    (IsPartialEval /\ ~result.ok) =>
        \A seed \in HashSeeds(call.exp) : InOrder(seed) = result

\* index(level = 3, va = <absent name>, ipa = <absent label>): the label's
\* error when ipa is visited first, the name's error when va is.
ErrorFollowsOrder ==
    /\ IsPartialEval
    /\ call.exp = App("index", <<>>, [level |-> NatLit(3), va |-> Loc("absent"),
                                      ipa |-> Label("absent")])
    /\ call.seed = "ipa"
    /\ result = Err("Type", <<"No label", "absent", "found">>)
    /\ InOrder("va") = Err("Type", <<"No address", "absent", "found">>)

\* Two positional arguments that both fail: the error of the first.
PositionalErrorIsFirst ==
    /\ IsPartialEval
    /\ call.exp = App("bvand", <<Loc("absent"), Label("absent")>>, NoKw)
    /\ result = Err("Type", <<"No address", "absent", "found">>)

============================================================================
